---- MODULE Spec2Model ----
(***************************************************************************)
(* The provisioning phase engine of the hosted provider:                   *)
(*   pkg/provider/hosted/cluster/handler.go                                *)
(* State derivation (EnsureClusterComplete), the control-plane and addon   *)
(* phases built on k8sutil.Reconcile, the control-plane machine phases     *)
(* (mark node, node ready) and endpoint selection (GetMasterEndpoint).     *)
(***************************************************************************)
EXTENDS Integers, Sequences, FiniteSets, TLC

\* ------------------------------------------------------------------ bounds

\* completeCredential may be called at most this often in one behaviour
\* (each call draws fresh identifiers from the generators).
MaxDerive == 2

\* Longest address list handed to GetMasterEndpoint.
MaxAddrs == 3

\* The node turns Ready at one of the first MaxReadyAt + 1 polls, at the last
\* poll of the window, or not within the window.
MaxReadyAt == 2

\* ------------------------------------------------------- program constants

\* The standard API port of completeAddresses (handler.go:85, :90).
APIPort == 6443

\* wait.PollImmediate(5*time.Second, 5*time.Minute, ...) (handler.go:525).
PollIntervalSec == 5
PollTimeoutSec == 300

\* constants.DNSIPIndex: the fixed index of the cluster DNS address.
DNSIPIndex == 10

\* Width of an IPv4 address.
IPBits == 32

\* -------------------------------------------------------------- data model

VARIABLES
    cluster,      \* the *common.Cluster handed to every phase
    gen,          \* how many identifiers the credential generators have issued
    clients,      \* per store client: its objects and the creates it has served
    nodeMarked,   \* node objects of the target cluster that MarkNode has marked
    last,         \* what the last phase invocation did and returned
    sel,          \* the last GetMasterEndpoint call: its input and its result
    pipe,         \* per machine: where its pipeline stands in the controller
    hosts,        \* per machine host: the remote operations executed on it
    cfg           \* p.Cfg, the provider's configuration: fixed once it is built

vars == <<cluster, gen, clients, nodeMarked, last, sel, pipe, hosts, cfg>>

\* The provider configurations: whether NeedSetHosts() asks for explicit host
\* entries of the registry.
Cfgs == [NeedSetHosts : BOOLEAN]

\* A nil *string of ClusterCredential.
Nil == <<>>

\* The nil error.
NoErr == "nil"

\* devopsv1.AddressType is a string type with these two declared values; any
\* other value matches neither branch of GetMasterEndpoint.
AddressReal == "Real"
AddressAdvertise == "Advertise"
AddressOther == "Other"

\* A CIDR that is absent: a nil *string in the spec, "" in the status.
NoCIDR == [set |-> FALSE, base |-> 0, ones |-> 0]

CIDR(base, ones) == [set |-> TRUE, base |-> base, ones |-> ones]

\* Number of addresses of a CIDR (ipallocator.RangeSize).
RangeSize(cidr) == 2 ^ (IPBits - cidr.ones)

\* 10.0.0.0 as a number.
Net10 == 10 * (2 ^ 24)

\* net.IP.String(): the dotted quad of a 32-bit address.
IPString(n) ==
    <<n \div (2 ^ 24), (n \div (2 ^ 16)) % 256, (n \div (2 ^ 8)) % 256, n % 256>>

\* Spec.Features.HA and its two optional blocks (nil pointers are set = FALSE).
NoDKEHA == [set |-> FALSE, VIP |-> ""]
NoThirdPartyHA == [set |-> FALSE, VIP |-> "", VPort |-> 0]
NoHA == [set |-> FALSE, DKEHA |-> NoDKEHA, ThirdPartyHA |-> NoThirdPartyHA]

HAConfigs ==
    {NoHA}
    \cup { [set |-> TRUE, DKEHA |-> d, ThirdPartyHA |-> t] :
             d \in {NoDKEHA, [set |-> TRUE, VIP |-> "10.0.0.100"]},
             t \in {NoThirdPartyHA,
                    [set |-> TRUE, VIP |-> "10.0.0.200", VPort |-> 8443]} }

\* The keys of Spec.Features.Hooks (devopsv1.HookType).
HookPreInstall == "PreInstall"
HookPostInstall == "PostInstall"
HookCniInstall == "CniInstall"
HookKeys == {HookPreInstall, HookPostInstall, HookCniInstall}

\* A hook is a command line, held as its words (what strings.Split(hook, " ")
\* returns); the empty string has no word. Looking up a key the map does not
\* hold returns the empty string.
NoHook == <<>>
NoHooks == [k \in HookKeys |-> NoHook]

\* The hook maps the machine phases are checked on: each of the pre-install
\* and the post-install hook configured or not, each with its own command;
\* the maps with a post-install hook also name the CNI type "dke-cni".
HookConfigs ==
    { [k \in HookKeys |->
         IF k = HookPreInstall THEN pre
         ELSE IF k = HookPostInstall THEN post
         ELSE IF post = NoHook THEN NoHook ELSE <<"dke-cni">>] :
      pre \in {NoHook, <<"/opt/pre.sh", "--warm">>},
      post \in {NoHook, <<"/opt/post.sh">>} }

Versions == {"v1.18.5", "v1.19.0"}

MachineLists == {<<>>, <<"10.0.0.1">>, <<"10.0.0.1", "10.0.0.2">>}

MachineIPs == {"10.0.0.1", "10.0.0.2"}

\* The declared specs the derivation is checked on.
DeclaredSpecs ==
    [ Version : Versions,
      ClusterCIDR : {CIDR(Net10, 16), CIDR(Net10, 29)},
      ServiceCIDR : {NoCIDR, CIDR(Net10 + 65536, 24), CIDR(Net10 + 65536, 29)},
      MaxClusterServiceNum : {8, 4096},
      MaxNodePodNum : {64},
      Machines : MachineLists,
      HA : HAConfigs,
      Hooks : {NoHooks},
      Files : {<<>>},
      PublicAlternativeNames : {<<>>} ]

\* The declared spec of the scenario of spec.md section 8, per version.
ScenarioSpec(v) ==
    [ Version |-> v,
      ClusterCIDR |-> CIDR(Net10, 16),
      ServiceCIDR |-> NoCIDR,
      MaxClusterServiceNum |-> 4096,
      MaxNodePodNum |-> 64,
      Machines |-> <<"10.0.0.1", "10.0.0.2">>,
      HA |-> NoHA,
      Hooks |-> NoHooks,
      Files |-> <<>>,
      PublicAlternativeNames |-> <<>> ]

\* pkiutil.ExternalAdminKubeConfigFileName, the key the exported kubeconfig is
\* stored under, and a key of another export.
ExternalAdminKubeConfigFileName == "external-admin.kubeconfig"
ExtKeys == {ExternalAdminKubeConfigFileName, "tenant.kubeconfig"}

\* ClusterCredential.ExtData, a map[string]string: whether the map has been
\* made (it is nil before), and per key its value, <<>> for a key it lacks.
NilExtData == [made |-> FALSE, data |-> [k \in ExtKeys |-> <<>>]]

\* A cluster record as the controller hands it to the first phase: the
\* declared spec, an empty status and an empty credential.
NewCluster(spec) ==
    [ Name |-> "member",
      Spec |-> spec,
      Status |-> [ Version |-> "",
                   ServiceCIDR |-> NoCIDR,
                   NodeCIDRMaskSize |-> 0,
                   DNSIP |-> <<>>,
                   Addresses |-> <<>> ],
      Credential |-> [ Token |-> Nil,
                       BootstrapToken |-> Nil,
                       CertificateKey |-> Nil,
                       CACert |-> Nil,
                       ExtData |-> NilExtData ] ]

\* ------------------------------------------------------- state derivation

\* Smallest k with 2^k >= n: int(math.Ceil(math.Log2(float64(n)))).
RECURSIVE CeilLog2(_)
CeilLog2(n) == IF n <= 1 THEN 0 ELSE 1 + CeilLog2((n + 1) \div 2)

\* k8sutil.GetNodeCIDRMaskSize: the node mask size that holds maxNodePodNum
\* pod addresses; an error when the cluster CIDR cannot hold one such block.
GetNodeCIDRMaskSize(clusterCIDR, maxNodePodNum) ==
    LET size == IPBits - CeilLog2(maxNodePodNum) IN
    IF maxNodePodNum <= 0 \/ ~clusterCIDR.set \/ clusterCIDR.ones > size
    THEN [size |-> -1, err |-> "GetNodeCIDRMaskSize error"]
    ELSE [size |-> size, err |-> NoErr]

\* k8sutil.GetServiceCIDRAndNodeCIDRMaskSize: a service CIDR holding
\* maxClusterServiceNum addresses carved from the end of the cluster CIDR,
\* and the node mask size; an error when the capacity cannot be satisfied.
GetServiceCIDRAndNodeCIDRMaskSize(clusterCIDR, maxClusterServiceNum, maxNodePodNum) ==
    LET bits == CeilLog2(maxClusterServiceNum)
        node == GetNodeCIDRMaskSize(clusterCIDR, maxNodePodNum)
        fail == [cidr |-> NoCIDR, size |-> 0,
                 err |-> "GetServiceCIDRAndNodeCIDRMaskSize error"]
    IN  IF maxClusterServiceNum <= 0 \/ maxNodePodNum <= 0 \/ ~clusterCIDR.set
        THEN fail
        ELSE IF RangeSize(clusterCIDR) < maxClusterServiceNum
        THEN fail
        ELSE IF node.err # NoErr
        THEN fail
        ELSE [cidr |-> CIDR(clusterCIDR.base + RangeSize(clusterCIDR) - 2 ^ bits,
                            IPBits - bits),
              size |-> node.size,
              err |-> NoErr]

\* k8sutil.GetIndexedIP: the address at the given index of the subnet, an
\* error when the subnet does not parse or does not contain that address.
GetIndexedIP(subnet, index) ==
    IF ~subnet.set \/ index >= RangeSize(subnet)
    THEN [ip |-> 0, err |-> "get DNS IP error"]
    ELSE [ip |-> subnet.base + index, err |-> NoErr]

\* Cluster.AddAddress: registers the address unless the list already has it.
AddAddress(c, type, host, port) ==
    LET addr == [Type |-> type, Host |-> host, Port |-> port] IN
    IF \E i \in 1..Len(c.Status.Addresses) : c.Status.Addresses[i] = addr
    THEN c
    ELSE [c EXCEPT !.Status.Addresses = Append(@, addr)]

completeK8sVersion(c) ==
    [c |-> [c EXCEPT !.Status.Version = c.Spec.Version], err |-> NoErr]

completeNetworking(c) ==
    IF c.Spec.ServiceCIDR.set
    THEN LET r == GetNodeCIDRMaskSize(c.Spec.ClusterCIDR, c.Spec.MaxNodePodNum) IN
         IF r.err # NoErr
         THEN [c |-> c, err |-> r.err]
         ELSE [c |-> [c EXCEPT !.Status.ServiceCIDR = c.Spec.ServiceCIDR,
                               !.Status.NodeCIDRMaskSize = r.size],
               err |-> NoErr]
    ELSE LET r == GetServiceCIDRAndNodeCIDRMaskSize(c.Spec.ClusterCIDR,
                      c.Spec.MaxClusterServiceNum, c.Spec.MaxNodePodNum) IN
         IF r.err # NoErr
         THEN [c |-> c, err |-> r.err]
         ELSE [c |-> [c EXCEPT !.Status.ServiceCIDR = r.cidr,
                               !.Status.NodeCIDRMaskSize = r.size],
               err |-> NoErr]

\* Mutant of completeDNS: the error of GetIndexedIP is dropped and the address
\* it returned with it is written.
completeDNS_IgnoreError(c) ==
    LET r == GetIndexedIP(c.Status.ServiceCIDR, DNSIPIndex) IN
    [c |-> [c EXCEPT !.Status.DNSIP = IPString(r.ip)], err |-> NoErr]

completeDNS(c) ==
    LET r == GetIndexedIP(c.Status.ServiceCIDR, DNSIPIndex) IN
    IF r.err # NoErr
    THEN [c |-> c, err |-> r.err]
    ELSE [c |-> [c EXCEPT !.Status.DNSIP = IPString(r.ip)], err |-> NoErr]

\* The loop over Spec.Machines of completeAddresses.
RECURSIVE AddMachineAddresses(_, _, _)
AddMachineAddresses(c, machines, i) ==
    IF i > Len(machines) THEN c
    ELSE AddMachineAddresses(AddAddress(c, AddressReal, machines[i], APIPort),
                             machines, i + 1)

\* Mutant of completeAddresses: the third-party VIP is registered at the
\* standard API port and the declared VPort is ignored.
completeAddresses_ThirdPartyAtAPIPort(c) ==
    LET ha == c.Spec.HA
        c1 == AddMachineAddresses(c, c.Spec.Machines, 1)
        c2 == IF ha.set /\ ha.DKEHA.set
              THEN AddAddress(c1, AddressAdvertise, ha.DKEHA.VIP, APIPort)
              ELSE c1
        c3 == IF ha.set /\ ha.ThirdPartyHA.set
              THEN AddAddress(c2, AddressAdvertise, ha.ThirdPartyHA.VIP, APIPort)
              ELSE c2
    IN  [c |-> c3, err |-> NoErr]

completeAddresses(c) ==
    LET ha == c.Spec.HA
        c1 == AddMachineAddresses(c, c.Spec.Machines, 1)
        c2 == IF ha.set /\ ha.DKEHA.set
              THEN AddAddress(c1, AddressAdvertise, ha.DKEHA.VIP, APIPort)
              ELSE c1
        c3 == IF ha.set /\ ha.ThirdPartyHA.set
              THEN AddAddress(c2, AddressAdvertise, ha.ThirdPartyHA.VIP,
                              ha.ThirdPartyHA.VPort)
              ELSE c2
    IN  [c |-> c3, err |-> NoErr]

\* What the random sources of completeCredential can do in one call.
CredOutcomes == {"ok", "bootstrapErr", "randErr"}

\* ksuid.New(), GenerateBootstrapToken() and rand.Read draw values no earlier
\* call has returned; n counts the calls made before this one.
completeCredential(c, n, outcome) ==
    LET c1 == [c EXCEPT !.Credential.Token = <<"ksuid", n + 1>>]
        c2 == [c1 EXCEPT !.Credential.BootstrapToken = <<"bootstrap", n + 1>>]
        c3 == [c2 EXCEPT !.Credential.CertificateKey = <<"hex", n + 1>>]
    IN  IF outcome = "bootstrapErr"
        THEN [c |-> c1, err |-> "GenerateBootstrapToken error"]
        ELSE IF outcome = "randErr"
        THEN [c |-> c2, err |-> "rand.Read error"]
        ELSE [c |-> c3, err |-> NoErr]

\* The funcs slice of EnsureClusterComplete.
ClusterCompleteFuncs ==
    <<"completeK8sVersion", "completeNetworking", "completeDNS",
      "completeAddresses", "completeCredential">>

\* The call f(cluster) of the loop of EnsureClusterComplete.
CompleteStep(f, c, n, outcome) ==
    CASE f = "completeK8sVersion" -> completeK8sVersion(c)
      [] f = "completeNetworking" -> completeNetworking(c)
      [] f = "completeDNS" -> completeDNS(c)
      [] f = "completeAddresses" -> completeAddresses(c)
      [] f = "completeCredential" -> completeCredential(c, n, outcome)

\* Mutant of RunCompleteFuncs: the loop notes the first error and goes on
\* with the remaining steps.
RECURSIVE RunCompleteFuncs_KeepGoing(_, _, _, _, _)
RunCompleteFuncs_KeepGoing(funcs, i, c, n, outcome) ==
    IF i > Len(funcs)
    THEN [c |-> c, err |-> NoErr, trace |-> <<>>]
    ELSE LET r == CompleteStep(funcs[i], c, n, outcome)
             here == <<[step |-> funcs[i], err |-> r.err]>>
             rest == RunCompleteFuncs_KeepGoing(funcs, i + 1, r.c, n, outcome)
         IN  [c |-> rest.c,
              err |-> IF r.err # NoErr THEN r.err ELSE rest.err,
              trace |-> here \o rest.trace]

\* The loop of EnsureClusterComplete from funcs[i] on: each step runs on the
\* record the previous one left, and the first error is returned at once.
\* trace lists the steps that ran, with what each returned.
RECURSIVE RunCompleteFuncs(_, _, _, _, _)
RunCompleteFuncs(funcs, i, c, n, outcome) ==
    IF i > Len(funcs)
    THEN [c |-> c, err |-> NoErr, trace |-> <<>>]
    ELSE LET r == CompleteStep(funcs[i], c, n, outcome)
             here == <<[step |-> funcs[i], err |-> r.err]>>
         IN  IF r.err # NoErr
             THEN [c |-> r.c, err |-> r.err, trace |-> here]
             ELSE LET rest == RunCompleteFuncs(funcs, i + 1, r.c, n, outcome)
                  IN  [c |-> rest.c, err |-> rest.err, trace |-> here \o rest.trace]

\* What a phase invocation leaves in `last`.
Outcome(op, err, trace, found, builds, calls, node, polls) ==
    [op |-> op, err |-> err, trace |-> trace, found |-> found,
     builds |-> builds, calls |-> calls, node |-> node, polls |-> polls]

NoOutcome == Outcome("none", NoErr, <<>>, FALSE, <<>>, <<>>, "", 0)

Ran(trace, f) == \E i \in 1..Len(trace) : trace[i].step = f

EnsureClusterComplete ==
    /\ gen < MaxDerive
    /\ \E outcome \in CredOutcomes :
         LET r == RunCompleteFuncs(ClusterCompleteFuncs, 1, cluster, gen, outcome) IN
         /\ cluster' = r.c
         /\ gen' = IF Ran(r.trace, "completeCredential") THEN gen + 1 ELSE gen
         /\ last' = Outcome("EnsureClusterComplete", r.err, r.trace, FALSE,
                            <<>>, <<>>, "", 0)
    /\ UNCHANGED <<clients, nodeMarked, sel, pipe, hosts, cfg>>


\* The operator edits the declared version of the cluster (the record the
\* controller hands to the phases is re-read from the store on every pass).
EditVersion ==
    /\ \E v \in Versions \ {cluster.Spec.Version} :
         cluster' = [cluster EXCEPT !.Spec.Version = v]
    /\ UNCHANGED <<gen, clients, nodeMarked, last, sel, pipe, hosts, cfg>>

\* ------------------------------------------------ reconciliation primitive

\* The two store clients a phase can hold: c.Client, and the Client of the
\* context ClusterManager keeps for a cluster name.
MgmtClient == "mgmt"
TargetClient == "target"

\* No object under that identity.
Absent == ""

MasterObjs == {"kube-apiserver", "kube-apiserver-svc",
               "kube-controller-manager", "kube-scheduler"}
AddonObjs == {"kube-proxy", "coredns", "flannel-cfg", "flannel-ds",
              "metrics-server"}
ObjIds == MasterObjs \cup AddonObjs

EmptyClient == [objs |-> [id \in ObjIds |-> Absent],
                creates |-> [id \in ObjIds |-> 0]]

\* What the store answers to one Reconcile call: it serves it, it refuses the
\* update with a conflict, or the call fails (read or write).
StoreOutcomes == {"ok", "conflict", "error"}

\* Mutant of Reconcile: an object that is present is written even when it
\* already is the desired one.
Reconcile_AlwaysUpdate(cl, obj, out) ==
    LET cur == cl.objs[obj.id] IN
    IF out = "error"
    THEN [cl |-> cl, mut |-> "none", err |-> "reconcile error"]
    ELSE IF cur = Absent
    THEN [cl |-> [cl EXCEPT !.objs[obj.id] = obj.spec,
                            !.creates[obj.id] = @ + 1],
          mut |-> "create", err |-> NoErr]
    ELSE IF out = "conflict"
    THEN [cl |-> cl, mut |-> "none", err |-> "conflict"]
    ELSE [cl |-> [cl EXCEPT !.objs[obj.id] = obj.spec],
          mut |-> "update", err |-> NoErr]

\* k8sutil.Reconcile(logger, client, obj, DesiredStatePresent): read the
\* object by identity; create it when absent, update it when it differs from
\* the desired one, else leave the store alone. mut names the mutating call.
Reconcile(cl, obj, out) ==
    LET cur == cl.objs[obj.id] IN
    IF out = "error"
    THEN [cl |-> cl, mut |-> "none", err |-> "reconcile error"]
    ELSE IF cur = Absent
    THEN [cl |-> [cl EXCEPT !.objs[obj.id] = obj.spec,
                            !.creates[obj.id] = @ + 1],
          mut |-> "create", err |-> NoErr]
    ELSE IF cur = obj.spec
    THEN [cl |-> cl, mut |-> "none", err |-> NoErr]
    ELSE IF out = "conflict"
    THEN [cl |-> cl, mut |-> "none", err |-> "conflict"]
    ELSE [cl |-> [cl EXCEPT !.objs[obj.id] = obj.spec],
          mut |-> "update", err |-> NoErr]

\* The loop `for _, obj := range objs { err := Reconcile(...); if err != nil
\* { return ... } }` of the phases, from objs[i] on, with the store's answers
\* outs[i]. calls lists the Reconcile calls made, in order.
RECURSIVE ReconcileAll(_, _, _, _, _)
ReconcileAll(cli, cl, objs, outs, i) ==
    IF i > Len(objs)
    THEN [cl |-> cl, err |-> NoErr, calls |-> <<>>]
    ELSE LET r == Reconcile(cl, objs[i], outs[i])
             here == <<[client |-> cli, id |-> objs[i].id, spec |-> objs[i].spec,
                        mut |-> r.mut, err |-> r.err]>>
         IN  IF r.err # NoErr
             THEN [cl |-> r.cl, err |-> r.err, calls |-> here]
             ELSE LET rest == ReconcileAll(cli, r.cl, objs, outs, i + 1)
                  IN  [cl |-> rest.cl, err |-> rest.err,
                       calls |-> here \o rest.calls]

\* A declarative object built from the cluster record.
Object(id, c) == [id |-> id, spec |-> c.Spec.Version]

\* ClusterManager.Get(name): the context of the named cluster, or an error
\* while the manager holds none for it.
ClusterManagerGet(name, found) ==
    IF found
    THEN [Client |-> IF name = "member" THEN TargetClient ELSE MgmtClient,
          err |-> NoErr]
    ELSE [Client |-> "", err |-> "cluster not found"]

\* --------------------------------------------------- cluster phase pipeline

\* What a phase returns to the action that runs it: the store clients as it
\* leaves them and the outcome.
Done(cls, outcome) == [clients |-> cls, last |-> outcome]

\* errors.Wrapf(err, ...): nil for a nil error, else the error with a message
\* in front of it.
Wrapf(err) == IF err = NoErr THEN NoErr ELSE "wrapped: " \o err

\* Mutant of KubeMasterFuncs: the scheduler is appended before the
\* controller-manager.
KubeMasterFuncs_Swapped(c) ==
    <<Object("kube-apiserver", c), Object("kube-apiserver-svc", c),
      Object("kube-scheduler", c), Object("kube-controller-manager", c)>>

\* fs of EnsureKubeMaster: r.apiServerDeployment, r.apiServerSvc,
\* r.controllerManagerDeployment, r.schedulerDeployment.
KubeMasterFuncs(c) ==
    <<Object("kube-apiserver", c), Object("kube-apiserver-svc", c),
      Object("kube-controller-manager", c), Object("kube-scheduler", c)>>

EnsureKubeMasterPhase(c, cls, outs) ==
    LET r == ReconcileAll(MgmtClient, cls[MgmtClient], KubeMasterFuncs(c), outs, 1)
    IN  Done([cls EXCEPT ![MgmtClient] = r.cl],
             Outcome("EnsureKubeMaster", Wrapf(r.err), <<>>, FALSE, <<>>,
                     r.calls, "", 0))

EnsureKubeMaster ==
    /\ \E outs \in [1..4 -> StoreOutcomes] :
         LET d == EnsureKubeMasterPhase(cluster, clients, outs) IN
         /\ clients' = d.clients
         /\ last' = d.last
    /\ UNCHANGED <<cluster, gen, nodeMarked, sel, pipe, hosts, cfg>>

\* The addon builders (external collaborators): the objects of the addon, or
\* an error.
BuildAddon(ids, c, fails) ==
    IF fails
    THEN [objs |-> <<>>, err |-> "build error"]
    ELSE [objs |-> [i \in 1..Len(ids) |-> Object(ids[i], c)], err |-> NoErr]

BuildKubeproxyAddon(c, fails) == BuildAddon(<<"kube-proxy">>, c, fails)
BuildCoreDNSAddon(c, fails) == BuildAddon(<<"coredns">>, c, fails)
BuildFlannelAddon(c, fails) == BuildAddon(<<"flannel-cfg", "flannel-ds">>, c, fails)
BuildMetricsServerAddon(c, fails) == BuildAddon(<<"metrics-server">>, c, fails)

\* Success as a no-op: what the phases return when the client lookup fails.
NotReady(op, cls, node) ==
    Done(cls, Outcome(op, NoErr, <<>>, FALSE, <<>>, <<>>, node, 0))

\* bfail is the set of builders that fail; outs[1] answers the kube-proxy
\* reconcile and outs[2] the coredns one.
EnsureAddonsPhase(c, cls, found, bfail, outs) ==
    LET op == "EnsureAddons"
        ctx == ClusterManagerGet(c.Name, found)
        kp == BuildKubeproxyAddon(c, "kube-proxy" \in bfail)
        cd == BuildCoreDNSAddon(c, "coredns" \in bfail)
    IN  IF ctx.err # NoErr THEN NotReady(op, cls, "")
        ELSE IF kp.err # NoErr
        THEN Done(cls, Outcome(op, Wrapf(kp.err), <<>>, TRUE, <<"kube-proxy">>,
                               <<>>, "", 0))
        ELSE LET r1 == ReconcileAll(ctx.Client, cls[ctx.Client], kp.objs, outs, 1)
                 cls1 == [cls EXCEPT ![ctx.Client] = r1.cl]
             IN  IF r1.err # NoErr
                 THEN Done(cls1, Outcome(op, Wrapf(r1.err), <<>>, TRUE,
                                         <<"kube-proxy">>, r1.calls, "", 0))
                 ELSE IF cd.err # NoErr
                 THEN Done(cls1, Outcome(op, Wrapf(cd.err), <<>>, TRUE,
                                         <<"kube-proxy", "coredns">>, r1.calls,
                                         "", 0))
                 ELSE LET r2 == ReconcileAll(ctx.Client, cls1[ctx.Client],
                                             cd.objs, Tail(outs), 1)
                      IN  Done([cls1 EXCEPT ![ctx.Client] = r2.cl],
                               Outcome(op, Wrapf(r2.err), <<>>, TRUE,
                                       <<"kube-proxy", "coredns">>,
                                       r1.calls \o r2.calls, "", 0))

EnsureAddons ==
    /\ \E found \in BOOLEAN, bfail \in SUBSET {"kube-proxy", "coredns"},
          outs \in [1..2 -> StoreOutcomes] :
         LET d == EnsureAddonsPhase(cluster, clients, found, bfail, outs) IN
         /\ clients' = d.clients
         /\ last' = d.last
    /\ UNCHANGED <<cluster, gen, nodeMarked, sel, pipe, hosts, cfg>>

\* Mutant of EnsureFlannelPhase: a failed reconcile is logged and the loop
\* goes on to the next object; the phase returns nil.
EnsureFlannelPhase_Swallow(c, cls, found, bfail, outs) ==
    LET op == "EnsureFlannel"
        ctx == ClusterManagerGet(c.Name, found)
        b == BuildFlannelAddon(c, bfail)
    IN  IF ctx.err # NoErr THEN NotReady(op, cls, "")
        ELSE IF b.err # NoErr
        THEN Done(cls, Outcome(op, Wrapf(b.err), <<>>, TRUE, <<"flannel">>,
                               <<>>, "", 0))
        ELSE LET r == ReconcileAll(ctx.Client, cls[ctx.Client], b.objs, outs, 1)
             IN  Done([cls EXCEPT ![ctx.Client] = r.cl],
                      Outcome(op, NoErr, <<>>, TRUE, <<"flannel">>,
                              r.calls, "", 0))

\* outs[i] answers the reconcile of the i-th object the builder returned.
EnsureFlannelPhase(c, cls, found, bfail, outs) ==
    LET op == "EnsureFlannel"
        ctx == ClusterManagerGet(c.Name, found)
        b == BuildFlannelAddon(c, bfail)
    IN  IF ctx.err # NoErr THEN NotReady(op, cls, "")
        ELSE IF b.err # NoErr
        THEN Done(cls, Outcome(op, Wrapf(b.err), <<>>, TRUE, <<"flannel">>,
                               <<>>, "", 0))
        ELSE LET r == ReconcileAll(ctx.Client, cls[ctx.Client], b.objs, outs, 1)
             IN  Done([cls EXCEPT ![ctx.Client] = r.cl],
                      Outcome(op, Wrapf(r.err), <<>>, TRUE, <<"flannel">>,
                              r.calls, "", 0))

EnsureFlannel ==
    /\ \E found \in BOOLEAN, bfail \in BOOLEAN, outs \in [1..2 -> StoreOutcomes] :
         LET d == EnsureFlannelPhase(cluster, clients, found, bfail, outs) IN
         /\ clients' = d.clients
         /\ last' = d.last
    /\ UNCHANGED <<cluster, gen, nodeMarked, sel, pipe, hosts, cfg>>

\* Mutant of EnsureMetricsServerPhase: the objects are reconciled through
\* c.Client, as EnsureKubeMaster does.
EnsureMetricsServerPhase_ViaClient(c, cls, found, bfail, outs) ==
    LET op == "EnsureMetricsServer"
        ctx == ClusterManagerGet(c.Name, found)
        b == BuildMetricsServerAddon(c, bfail)
    IN  IF ctx.err # NoErr THEN NotReady(op, cls, "")
        ELSE IF b.err # NoErr
        THEN Done(cls, Outcome(op, Wrapf(b.err), <<>>, TRUE, <<"metrics-server">>,
                               <<>>, "", 0))
        ELSE LET r == ReconcileAll(MgmtClient, cls[MgmtClient], b.objs, outs, 1)
             IN  Done([cls EXCEPT ![MgmtClient] = r.cl],
                      Outcome(op, Wrapf(r.err), <<>>, TRUE, <<"metrics-server">>,
                              r.calls, "", 0))

EnsureMetricsServerPhase(c, cls, found, bfail, outs) ==
    LET op == "EnsureMetricsServer"
        ctx == ClusterManagerGet(c.Name, found)
        b == BuildMetricsServerAddon(c, bfail)
    IN  IF ctx.err # NoErr THEN NotReady(op, cls, "")
        ELSE IF b.err # NoErr
        THEN Done(cls, Outcome(op, Wrapf(b.err), <<>>, TRUE, <<"metrics-server">>,
                               <<>>, "", 0))
        ELSE LET r == ReconcileAll(ctx.Client, cls[ctx.Client], b.objs, outs, 1)
             IN  Done([cls EXCEPT ![ctx.Client] = r.cl],
                      Outcome(op, Wrapf(r.err), <<>>, TRUE, <<"metrics-server">>,
                              r.calls, "", 0))

EnsureMetricsServer ==
    /\ \E found \in BOOLEAN, bfail \in BOOLEAN, outs \in [1..1 -> StoreOutcomes] :
         LET d == EnsureMetricsServerPhase(cluster, clients, found, bfail, outs) IN
         /\ clients' = d.clients
         /\ last' = d.last
    /\ UNCHANGED <<cluster, gen, nodeMarked, sel, pipe, hosts, cfg>>


\* ------------------------------------------------------ the machine pipeline

\* The phases of a machine in the order the controller runs them, each only
\* after the one before has returned without an error.
MachinePipeline ==
    <<"EnsureCopyFiles", "EnsurePreInstallHook", "EnsurePreflight",
      "EnsureRegistryHosts", "EnsureClean", "EnsureSystem", "EnsureK8sComponent",
      "EnsureKubeconfig", "EnsureJoinNode", "EnsureEth", "EnsureCni",
      "EnsureMarkNode", "EnsureNodeReady", "EnsurePostInstallHook">>

\* The kubeconfig.Option of a node kubeconfig; NoOption is none.
NoOption ==
    [set |-> FALSE, MasterEndpoint |-> <<>>, ClusterName |-> "",
     CACert |-> Nil, Token |-> Nil]

\* A machine whose phases the controller invokes one at a time, outside a
\* pipeline invocation.
Detached == [pc |-> -1, err |-> NoErr]

\* A machine the controller has started no pipeline invocation for.
Idle == [pc |-> 0, err |-> NoErr]

\* A machine whose pipeline invocation is about to run its first phase.
Started == [pc |-> 1, err |-> NoErr]

NoPipes == [m \in MachineIPs |-> Detached]

\* A host on which nothing has been executed and no kubeconfig is installed.
NoHost == [cmds |-> <<>>, kubeconfig |-> NoOption]

NoHosts == [h \in MachineIPs |-> NoHost]

\* The phase named is the next one of the pipeline invocation of machine m.
AtPhase(m, name) ==
    /\ pipe[m].pc \in 1..Len(MachinePipeline)
    /\ pipe[m].err = NoErr
    /\ MachinePipeline[pipe[m].pc] = name

\* The controller invokes the phase for machine m: as the next phase of the
\* machine's pipeline invocation, or on its own for a detached machine.
Invoked(m, name) == pipe[m] = Detached \/ AtPhase(m, name)

\* The pipeline of machine m after the phase it invoked has returned err: the
\* next phase on success; on an error the invocation ends where it stands.
Advance(m, err) ==
    IF pipe[m] = Detached THEN pipe
    ELSE [pipe EXCEPT ![m] = [pc |-> IF err = NoErr THEN @.pc + 1 ELSE @.pc,
                              err |-> err]]

\* --------------------------------------- machine phases on the control plane

\* apiclient.MarkNode(ctx, kubeCli, ip, labels, taints): applies the labels and
\* taints to the node object named ip, or fails.
MarkNode(marked, ip, fails) ==
    IF fails
    THEN [marked |-> marked, err |-> "mark node error"]
    ELSE [marked |-> marked \cup {ip}, err |-> NoErr]

\* What a machine phase on the control plane returns to its action.
NodeDone(marked, outcome) == [marked |-> marked, last |-> outcome]

\* Mutant of EnsureMarkNodePhase: the lookup error is returned.
EnsureMarkNodePhase_FailOnLookup(c, marked, ip, found, fails) ==
    LET op == "EnsureMarkNode"
        ctx == ClusterManagerGet(c.Name, found)
        r == MarkNode(marked, ip, fails)
    IN  IF ctx.err # NoErr
        THEN NodeDone(marked, Outcome(op, ctx.err, <<>>, FALSE, <<>>, <<>>, "", 0))
        ELSE NodeDone(r.marked,
                      Outcome(op, r.err, <<>>, TRUE, <<>>,
                              <<[client |-> ctx.Client, id |-> ip, spec |-> "",
                                 mut |-> "mark", err |-> r.err]>>, ip, 0))

EnsureMarkNodePhase(c, marked, ip, found, fails) ==
    LET op == "EnsureMarkNode"
        ctx == ClusterManagerGet(c.Name, found)
        r == MarkNode(marked, ip, fails)
    IN  IF ctx.err # NoErr
        THEN NodeDone(marked, Outcome(op, NoErr, <<>>, FALSE, <<>>, <<>>, "", 0))
        ELSE NodeDone(r.marked,
                      Outcome(op, r.err, <<>>, TRUE, <<>>,
                              <<[client |-> ctx.Client, id |-> ip, spec |-> "",
                                 mut |-> "mark", err |-> r.err]>>, ip, 0))

EnsureMarkNode ==
    /\ \E ip \in MachineIPs, found \in BOOLEAN, fails \in BOOLEAN :
         LET d == EnsureMarkNodePhase(cluster, nodeMarked, ip, found, fails) IN
         /\ Invoked(ip, "EnsureMarkNode")
         /\ nodeMarked' = d.marked
         /\ last' = d.last
         /\ pipe' = Advance(ip, d.last.err)
    /\ UNCHANGED <<cluster, gen, clients, sel, hosts, cfg>>

\* Number of times wait.PollImmediate calls the condition before it gives up:
\* once at once, then once per interval while the timeout has not passed.
NumPolls == PollTimeoutSec \div PollIntervalSec + 1

\* What the i-th read of the node object shows (i from 0). The caller's ctx
\* is done from read cancelAt on, and Nodes().Get(ctx, ...) then returns the
\* context's error. Before that the node reports Ready from read readyAt on;
\* earlier the read fails (readsFail) or shows a node that is not ready.
NodeRead(i, readyAt, readsFail, cancelAt) ==
    IF i >= cancelAt THEN "canceled"
    ELSE IF i >= readyAt THEN "ready"
    ELSE IF readsFail THEN "getErr" ELSE "notReady"

\* Mutant of NodeReadyCondition: a failed read is returned as an error.
NodeReadyCondition_FailOnGetErr(read) ==
    IF read \in {"getErr", "canceled"} THEN [done |-> FALSE, err |-> "get node error"]
    ELSE IF read = "ready" THEN [done |-> TRUE, err |-> NoErr]
    ELSE [done |-> FALSE, err |-> NoErr]

\* The condition function handed to PollImmediate: (done, err). The error of
\* the read, the context's included, is dropped (handler.go:527-529).
NodeReadyCondition(read) ==
    IF read \in {"getErr", "canceled"} THEN [done |-> FALSE, err |-> NoErr]
    ELSE IF read = "ready" THEN [done |-> TRUE, err |-> NoErr]
    ELSE [done |-> FALSE, err |-> NoErr]

\* wait.ErrWaitTimeout
ErrWaitTimeout == "timed out waiting for the condition"

\* Mutant of PollImmediate: the end of the window is reported as success.
RECURSIVE PollImmediate_TimeoutIsSuccess(_, _, _, _)
PollImmediate_TimeoutIsSuccess(i, readyAt, readsFail, cancelAt) ==
    IF i >= NumPolls
    THEN [err |-> NoErr, polls |-> i]
    ELSE LET r == NodeReadyCondition(NodeRead(i, readyAt, readsFail, cancelAt)) IN
         IF r.err # NoErr THEN [err |-> r.err, polls |-> i + 1]
         ELSE IF r.done THEN [err |-> NoErr, polls |-> i + 1]
         ELSE PollImmediate_TimeoutIsSuccess(i + 1, readyAt, readsFail, cancelAt)

\* wait.PollImmediate(interval, timeout, condition) from poll i on: it calls
\* the condition, returns its error or nil when it is done, and otherwise
\* waits one interval and polls again until the timeout has passed. It is
\* handed no context. polls counts the condition calls.
RECURSIVE PollImmediate(_, _, _, _)
PollImmediate(i, readyAt, readsFail, cancelAt) ==
    IF i >= NumPolls
    THEN [err |-> ErrWaitTimeout, polls |-> i]
    ELSE LET r == NodeReadyCondition(NodeRead(i, readyAt, readsFail, cancelAt)) IN
         IF r.err # NoErr THEN [err |-> r.err, polls |-> i + 1]
         ELSE IF r.done THEN [err |-> NoErr, polls |-> i + 1]
         ELSE PollImmediate(i + 1, readyAt, readsFail, cancelAt)

\* The polls at which the node is taken to turn Ready; NumPolls is never.
ReadyAts == (0..MaxReadyAt) \cup {NumPolls - 1, NumPolls}

\* The polls before which the caller's ctx is taken to be cancelled; NumPolls
\* is never.
CancelAts == (0..MaxReadyAt) \cup {NumPolls}

\* What the node and the caller's ctx are taken to do during a call: with a
\* ctx that is never cancelled the node turns Ready at one of ReadyAts, after
\* failed or not-ready reads; or the ctx is cancelled at one of CancelAts
\* while the node is not ready (no read succeeds once the ctx is done, so
\* what the node does later is not seen).
PollEnvs ==
    { e \in [readyAt : ReadyAts, readsFail : BOOLEAN, cancelAt : CancelAts] :
        \/ e.cancelAt = NumPolls
        \/ e.readyAt = NumPolls /\ ~e.readsFail }

\* The environment of a call that reads nothing, the client lookup having
\* failed.
NoPollEnv == [readyAt |-> NumPolls, readsFail |-> FALSE, cancelAt |-> NumPolls]

\* The trace of the call is the environment it ran in: NodeRead tells what
\* each of its polls read.
EnsureNodeReadyPhase(c, marked, ip, found, e) ==
    LET op == "EnsureNodeReady"
        ctx == ClusterManagerGet(c.Name, found)
        r == PollImmediate(0, e.readyAt, e.readsFail, e.cancelAt)
    IN  IF ctx.err # NoErr
        THEN NodeDone(marked, Outcome(op, NoErr, <<>>, FALSE, <<>>, <<>>, "", 0))
        ELSE NodeDone(marked,
                      Outcome(op, r.err, <<e>>, TRUE, <<>>, <<>>, ip, r.polls))

EnsureNodeReady ==
    /\ \E ip \in MachineIPs, found \in BOOLEAN :
         /\ Invoked(ip, "EnsureNodeReady")
         /\ \E e \in (IF found THEN PollEnvs ELSE {NoPollEnv}) :
              \E d \in {EnsureNodeReadyPhase(cluster, nodeMarked, ip, found, e)} :
                /\ nodeMarked' = d.marked
                /\ last' = d.last
                /\ pipe' = Advance(ip, d.last.err)
    /\ UNCHANGED <<cluster, gen, clients, sel, hosts, cfg>>

\* ------------------------------------- machine phases on the machine's host

\* A devopsv1.Machine of the cluster, as far as the phases read it.
Machine(ip) == [IP |-> ip, TenantID |-> "tenant"]

\* The error of a handle that cannot be obtained.
ErrSSH == "ssh: handshake failed"

\* Mutant of SSH: the handle is connected to the first machine of the cluster,
\* whichever machine it is asked for.
SSH_FirstMachine(machine, ok) ==
    IF ok THEN [sh |-> [HostIP |-> "10.0.0.1"], err |-> NoErr]
    ELSE [sh |-> [HostIP |-> ""], err |-> ErrSSH]

\* machine.Spec.SSH(): a handle on the machine's own address, or an error.
SSH(machine, ok) ==
    IF ok THEN [sh |-> [HostIP |-> machine.IP], err |-> NoErr]
    ELSE [sh |-> [HostIP |-> ""], err |-> ErrSSH]

\* A remote operation issued through a handle: it runs on the handle's host.
Remote(sh, cmd) == [host |-> sh.HostIP, cmd |-> cmd, arg |-> NoOption]

\* The operations a loop issues one after another until one fails, the
\* failAt-th (none when failAt is 0 or beyond the last).
Attempted(cmds, failAt) ==
    IF failAt \in 1..Len(cmds) THEN SubSeq(cmds, 1, failAt) ELSE cmds

FailedAt(cmds, failAt) == failAt \in 1..Len(cmds)

\* strings.Join(words, " "): the command line of a hook.
RECURSIVE JoinWords(_)
JoinWords(words) ==
    IF Len(words) = 0 THEN ""
    ELSE IF Len(words) = 1 THEN words[1]
    ELSE words[1] \o " " \o JoinWords(Tail(words))

\* strings.Split(hook, " ")[0] of a hook that is not empty.
FirstWord(hook) == hook[1]

\* What machineSSH.Exec(hook) can return: (stderr, exit, err).
ExecResults ==
    { [stderr |-> "", exit |-> 0, err |-> NoErr],
      [stderr |-> "boom", exit |-> 3, err |-> NoErr],
      [stderr |-> "", exit |-> 0, err |-> "ssh: session closed"] }

\* fmt.Errorf("exec %q failed:exit %d:stderr %s:error %s", hook, exit, stderr, err)
HookError(hook, res) ==
    "exec \"" \o JoinWords(hook) \o "\" failed:exit " \o ToString(res.exit)
        \o ":stderr " \o res.stderr \o ":error " \o res.err

\* What a remote-execution phase returns to its action: the remote operations
\* it issued, in order, and its outcome (the operations are its trace).
RemoteDone(op, err, cmds) ==
    [cmds |-> cmds,
     last |-> Outcome(op, err, cmds, FALSE, <<>>, <<>>, "", 0)]

\* What a hook phase that ran the hook returns: its calls are the Exec of the
\* hook with what it returned.
HookDone(op, err, cmds, res) ==
    [cmds |-> cmds,
     last |-> Outcome(op, err, cmds, FALSE, <<>>,
                      <<[host |-> cmds[2].host, cmd |-> cmds[2].cmd,
                         stderr |-> res.stderr, exit |-> res.exit,
                         err |-> res.err]>>, "", 0)]

\* Mutant of EnsurePreInstallHookPhase: the error names the hook only.
EnsurePreInstallHookPhase_BareError(c, machine, sshOK, res) ==
    LET op == "EnsurePreInstallHook"
        hook == c.Spec.Hooks[HookPostInstall]
        ssh == SSH(machine, sshOK)
        cmds == <<Remote(ssh.sh, "chmod +x " \o FirstWord(hook)),
                  Remote(ssh.sh, JoinWords(hook))>>
    IN  IF hook = NoHook THEN RemoteDone(op, NoErr, <<>>)
        ELSE IF ssh.err # NoErr THEN RemoteDone(op, ssh.err, <<>>)
        ELSE IF res.err # NoErr \/ res.exit # 0
        THEN HookDone(op, "exec \"" \o JoinWords(hook) \o "\" failed", cmds, res)
        ELSE HookDone(op, NoErr, cmds, res)

\* The hook is read under the key HookPostInstall (handler.go:346). The result
\* of the chmod is dropped; the hook runs whatever it was.
EnsurePreInstallHookPhase(c, machine, sshOK, res) ==
    LET op == "EnsurePreInstallHook"
        hook == c.Spec.Hooks[HookPostInstall]
        ssh == SSH(machine, sshOK)
        cmds == <<Remote(ssh.sh, "chmod +x " \o FirstWord(hook)),
                  Remote(ssh.sh, JoinWords(hook))>>
    IN  IF hook = NoHook THEN RemoteDone(op, NoErr, <<>>)
        ELSE IF ssh.err # NoErr THEN RemoteDone(op, ssh.err, <<>>)
        ELSE IF res.err # NoErr \/ res.exit # 0
        THEN HookDone(op, HookError(hook, res), cmds, res)
        ELSE HookDone(op, NoErr, cmds, res)

EnsurePostInstallHookPhase(c, machine, sshOK, res) ==
    LET op == "EnsurePostInstallHook"
        hook == c.Spec.Hooks[HookPostInstall]
        ssh == SSH(machine, sshOK)
        cmds == <<Remote(ssh.sh, "chmod +x " \o FirstWord(hook)),
                  Remote(ssh.sh, JoinWords(hook))>>
    IN  IF hook = NoHook THEN RemoteDone(op, NoErr, <<>>)
        ELSE IF ssh.err # NoErr THEN RemoteDone(op, ssh.err, <<>>)
        ELSE IF res.err # NoErr \/ res.exit # 0
        THEN HookDone(op, HookError(hook, res), cmds, res)
        ELSE HookDone(op, NoErr, cmds, res)

EnsureCopyFilesPhase(c, machine, sshOK, failAt) ==
    LET op == "EnsureCopyFiles"
        ssh == SSH(machine, sshOK)
        files == c.Spec.Files
        cmds == [i \in 1..Len(files) |-> Remote(ssh.sh, "copy " \o files[i])]
    IN  IF ssh.err # NoErr THEN RemoteDone(op, ssh.err, <<>>)
        ELSE IF FailedAt(cmds, failAt)
        THEN RemoteDone(op, "copy file error", Attempted(cmds, failAt))
        ELSE RemoteDone(op, NoErr, cmds)

\* p.Cfg.Registry: the registry's domain and address.
RegistryDomain == "registry.local"
RegistryIP == "10.0.0.250"

\* Mutant of EnsureRegistryHostsPhase: the entries are set whether or not the
\* configuration asks for them.
EnsureRegistryHostsPhase_Always(c, machine, need, sshOK, failAt) ==
    LET op == "EnsureRegistryHosts"
        ssh == SSH(machine, sshOK)
        domains == <<RegistryDomain, machine.TenantID \o "." \o RegistryDomain>>
        cmds == [i \in 1..Len(domains) |->
                   Remote(ssh.sh, "hosts set " \o domains[i] \o " " \o RegistryIP)]
    IN  IF ssh.err # NoErr THEN RemoteDone(op, ssh.err, <<>>)
        ELSE IF FailedAt(cmds, failAt)
        THEN RemoteDone(op, "hosts set error", Attempted(cmds, failAt))
        ELSE RemoteDone(op, NoErr, cmds)

EnsureRegistryHostsPhase(c, machine, need, sshOK, failAt) ==
    LET op == "EnsureRegistryHosts"
        ssh == SSH(machine, sshOK)
        domains == <<RegistryDomain, machine.TenantID \o "." \o RegistryDomain>>
        cmds == [i \in 1..Len(domains) |->
                   Remote(ssh.sh, "hosts set " \o domains[i] \o " " \o RegistryIP)]
    IN  IF ~need THEN RemoteDone(op, NoErr, <<>>)
        ELSE IF ssh.err # NoErr THEN RemoteDone(op, ssh.err, <<>>)
        ELSE IF FailedAt(cmds, failAt)
        THEN RemoteDone(op, "hosts set error", Attempted(cmds, failAt))
        ELSE RemoteDone(op, NoErr, cmds)

\* What a nil pointer dereference and an index beyond a slice do: the
\* goroutine panics and the phase returns nothing.
PanicNil == "panic: invalid memory address or nil pointer dereference"
PanicIndex == "panic: index out of range [0] with length 0"

\* kubeconfig.GetBindPort: the port the API server is reached at, the declared
\* port of the third-party HA when there is one, the standard port otherwise.
GetBindPort(c) ==
    IF c.Spec.HA.set /\ c.Spec.HA.ThirdPartyHA.set
    THEN c.Spec.HA.ThirdPartyHA.VPort
    ELSE APIPort

\* certs.BuildApiserverEndpoint(host, port)
BuildApiserverEndpoint(host, port) == <<"https://", host, ":", port>>

\* The endpoint is built from Features.HA.ThirdPartyHA.VIP with no nil check
\* (handler.go:474) and the token is *ClusterCredential.Token (handler.go:480).
MachineEnsureKubeconfigPhase(c, machine, sshOK, fails) ==
    LET op == "EnsureKubeconfig"
        ssh == SSH(machine, sshOK)
        ha == c.Spec.HA
        apiserver == BuildApiserverEndpoint(ha.ThirdPartyHA.VIP, GetBindPort(c))
        option == [set |-> TRUE,
                   MasterEndpoint |-> apiserver,
                   ClusterName |-> c.Name,
                   CACert |-> c.Credential.CACert,
                   Token |-> c.Credential.Token]
        cmds == <<[host |-> ssh.sh.HostIP, cmd |-> "kubeconfig.InstallNode",
                   arg |-> option]>>
    IN  IF ssh.err # NoErr THEN RemoteDone(op, ssh.err, <<>>)
        ELSE IF ~ha.set \/ ~ha.ThirdPartyHA.set THEN RemoteDone(op, PanicNil, <<>>)
        ELSE IF c.Credential.Token = Nil THEN RemoteDone(op, PanicNil, <<>>)
        ELSE IF fails THEN RemoteDone(op, "install node kubeconfig error", cmds)
        ELSE RemoteDone(op, NoErr, cmds)

\* The endpoint is built from Spec.PublicAlternativeNames[0] (handler.go:496).
EnsureJoinNodePhase(c, machine, sshOK, fails) ==
    LET op == "EnsureJoinNode"
        ssh == SSH(machine, sshOK)
        names == c.Spec.PublicAlternativeNames
        apiserver == BuildApiserverEndpoint(names[1], GetBindPort(c))
        cmds == <<[host |-> ssh.sh.HostIP, cmd |-> "joinNode.JoinNodePhase",
                   arg |-> [NoOption EXCEPT !.MasterEndpoint = apiserver]]>>
    IN  IF ssh.err # NoErr THEN RemoteDone(op, ssh.err, <<>>)
        ELSE IF Len(names) = 0 THEN RemoteDone(op, PanicIndex, <<>>)
        ELSE IF fails THEN RemoteDone(op, "join node error", cmds)
        ELSE RemoteDone(op, NoErr, cmds)

\* ------------------------------------- the steps of the machine pipeline

\* The hosts after the remote operations cmds: each runs on the host its handle
\* is connected to; a node kubeconfig is in place once its installation has
\* returned without an error.
Issue(hs, cmds, err) ==
    [h \in DOMAIN hs |->
       LET mine == SelectSeq(cmds, LAMBDA r : r.host = h) IN
       [cmds |-> hs[h].cmds \o [i \in 1..Len(mine) |-> mine[i].cmd],
        kubeconfig |->
            IF err = NoErr /\ \E i \in 1..Len(mine) : mine[i].arg.set
            THEN mine[CHOOSE i \in 1..Len(mine) : mine[i].arg.set].arg
            ELSE hs[h].kubeconfig]]

\* The step of a remote-execution phase of machine m that returned d.
RemoteStep(m, d) ==
    /\ hosts' = Issue(hosts, d.cmds, d.last.err)
    /\ last' = d.last
    /\ pipe' = Advance(m, d.last.err)
    /\ UNCHANGED <<cluster, gen, clients, nodeMarked, sel, cfg>>

\* Longest failing position drawn for a loop of remote operations.
MaxFailAt == 2

EnsureCopyFiles ==
    \E m \in MachineIPs, sshOK \in BOOLEAN, failAt \in 0..MaxFailAt :
        /\ AtPhase(m, "EnsureCopyFiles")
        /\ RemoteStep(m, EnsureCopyFilesPhase(cluster, Machine(m), sshOK, failAt))

EnsurePreInstallHook ==
    \E m \in MachineIPs, sshOK \in BOOLEAN, res \in ExecResults :
        /\ AtPhase(m, "EnsurePreInstallHook")
        /\ RemoteStep(m, EnsurePreInstallHookPhase(cluster, Machine(m), sshOK, res))

EnsurePreflight ==
    \E m \in MachineIPs, sshOK \in BOOLEAN, fails \in BOOLEAN :
        LET op == "EnsurePreflight"
            ssh == SSH(Machine(m), sshOK)
            cmds == <<Remote(ssh.sh, "preflight.RunNodeChecks")>>
        IN  /\ AtPhase(m, op)
            /\ RemoteStep(m,
                 IF ssh.err # NoErr THEN RemoteDone(op, ssh.err, <<>>)
                 ELSE IF fails THEN RemoteDone(op, "preflight check failed", cmds)
                 ELSE RemoteDone(op, NoErr, cmds))

EnsureRegistryHosts ==
    \E m \in MachineIPs, sshOK \in BOOLEAN, failAt \in 0..MaxFailAt :
        /\ AtPhase(m, "EnsureRegistryHosts")
        /\ RemoteStep(m, EnsureRegistryHostsPhase(cluster, Machine(m),
                                                  cfg.NeedSetHosts, sshOK, failAt))

\* constants.KubernetesDir is /etc/kubernetes.
EnsureClean ==
    \E m \in MachineIPs, sshOK \in BOOLEAN, fails \in BOOLEAN :
        LET op == "EnsureClean"
            ssh == SSH(Machine(m), sshOK)
            cmds == <<Remote(ssh.sh, "rm -rf /etc/kubernetes")>>
        IN  /\ AtPhase(m, op)
            /\ RemoteStep(m,
                 IF ssh.err # NoErr THEN RemoteDone(op, ssh.err, <<>>)
                 ELSE IF fails THEN RemoteDone(op, "rm error", cmds)
                 ELSE RemoteDone(op, NoErr, cmds))

\* errors.Wrap(err, sh.HostIP())
WrapHost(sh, err) == sh.HostIP \o ": " \o err

EnsureSystem ==
    \E m \in MachineIPs, sshOK \in BOOLEAN, fails \in BOOLEAN :
        LET op == "EnsureSystem"
            ssh == SSH(Machine(m), sshOK)
            cmds == <<Remote(ssh.sh, "system.Install")>>
        IN  /\ AtPhase(m, op)
            /\ RemoteStep(m,
                 IF ssh.err # NoErr THEN RemoteDone(op, ssh.err, <<>>)
                 ELSE IF fails
                 THEN RemoteDone(op, WrapHost(ssh.sh, "install error"), cmds)
                 ELSE RemoteDone(op, NoErr, cmds))

EnsureK8sComponent ==
    \E m \in MachineIPs, sshOK \in BOOLEAN, fails \in BOOLEAN :
        LET op == "EnsureK8sComponent"
            ssh == SSH(Machine(m), sshOK)
            cmds == <<Remote(ssh.sh, "k8scomponent.Install")>>
        IN  /\ AtPhase(m, op)
            /\ RemoteStep(m,
                 IF ssh.err # NoErr THEN RemoteDone(op, ssh.err, <<>>)
                 ELSE IF fails
                 THEN RemoteDone(op, WrapHost(ssh.sh, "install error"), cmds)
                 ELSE RemoteDone(op, NoErr, cmds))

MachineEnsureKubeconfig ==
    \E m \in MachineIPs, sshOK \in BOOLEAN, fails \in BOOLEAN :
        /\ AtPhase(m, "EnsureKubeconfig")
        /\ RemoteStep(m, MachineEnsureKubeconfigPhase(cluster, Machine(m), sshOK,
                                                      fails))

EnsureJoinNode ==
    \E m \in MachineIPs, sshOK \in BOOLEAN, fails \in BOOLEAN :
        /\ AtPhase(m, "EnsureJoinNode")
        /\ RemoteStep(m, EnsureJoinNodePhase(cluster, Machine(m), sshOK, fails))

\* Both phases act for the CNI type "dke-cni" only.
EnsureEth ==
    \E m \in MachineIPs, sshOK \in BOOLEAN, fails \in BOOLEAN :
        LET op == "EnsureEth"
            cniType == cluster.Spec.Hooks[HookCniInstall]
            ssh == SSH(Machine(m), sshOK)
            cmds == <<Remote(ssh.sh, "cni.ApplyEth")>>
        IN  /\ AtPhase(m, op)
            /\ RemoteStep(m,
                 IF cniType = NoHook THEN RemoteDone(op, NoErr, <<>>)
                 ELSE IF cniType # <<"dke-cni">> THEN RemoteDone(op, NoErr, <<>>)
                 ELSE IF ssh.err # NoErr THEN RemoteDone(op, ssh.err, <<>>)
                 ELSE IF fails THEN RemoteDone(op, "apply eth error", cmds)
                 ELSE RemoteDone(op, NoErr, cmds))

EnsureCni ==
    \E m \in MachineIPs, sshOK \in BOOLEAN, fails \in BOOLEAN :
        LET op == "EnsureCni"
            cniType == cluster.Spec.Hooks[HookCniInstall]
            ssh == SSH(Machine(m), sshOK)
            cmds == <<Remote(ssh.sh, "cni.ApplyCniCfg")>>
        IN  /\ AtPhase(m, op)
            /\ RemoteStep(m,
                 IF cniType = NoHook THEN RemoteDone(op, NoErr, <<>>)
                 ELSE IF cniType # <<"dke-cni">> THEN RemoteDone(op, NoErr, <<>>)
                 ELSE IF ssh.err # NoErr THEN RemoteDone(op, ssh.err, <<>>)
                 ELSE IF fails THEN RemoteDone(op, "apply cni error", cmds)
                 ELSE RemoteDone(op, NoErr, cmds))

EnsurePostInstallHook ==
    \E m \in MachineIPs, sshOK \in BOOLEAN, res \in ExecResults :
        /\ AtPhase(m, "EnsurePostInstallHook")
        /\ RemoteStep(m, EnsurePostInstallHookPhase(cluster, Machine(m), sshOK, res))

\* --------------------------------------------------------- endpoint selection

\* fmt.Sprintf("https://%s:%d", address.Host, address.Port)
Endpoint(address) == <<"https://", address.Host, ":", address.Port>>

\* The elements of the list of the given type, in order: one append per
\* matching element of the range loop.
OfType(addresses, type) == SelectSeq(addresses, LAMBDA a : a.Type = type)

\* rand.Intn(n) for n > 0: some number of 0..n-1, picked by the seed.
Intn(n, seed) == seed % n

\* The ClusterAddress the k-th pointer of a slice filled by the range loop
\* points to once the loop has ended. Every append stores &one, and `one` is
\* the single variable of `for _, one := range addresses` (a range variable is
\* per loop, not per iteration, before Go 1.22, the language of this module):
\* all the pointers are that one address, which holds the last element the loop
\* assigned, whatever its type.
Deref(addresses, slice, k) == addresses[Len(addresses)]

\* Mutant of GetMasterEndpoint: no fall back to the Real addresses.
GetMasterEndpoint_NoFallback(addresses, seed) ==
    LET advertise == OfType(addresses, AddressAdvertise)
    IN  IF Len(advertise) > 0
        THEN [endpoint |-> Endpoint(Deref(addresses, advertise,
                                          Intn(Len(advertise), seed) + 1)),
              err |-> NoErr]
        ELSE [endpoint |-> <<>>,
              err |-> "no advertise or internal address for the cluster"]

GetMasterEndpoint(addresses, seed) ==
    LET advertise == OfType(addresses, AddressAdvertise)
        internal == OfType(addresses, AddressReal)
    IN  IF Len(advertise) > 0
        THEN [endpoint |-> Endpoint(Deref(addresses, advertise,
                                          Intn(Len(advertise), seed) + 1)),
              err |-> NoErr]
        ELSE IF Len(internal) > 0
        THEN [endpoint |-> Endpoint(Deref(addresses, internal,
                                          Intn(Len(internal), seed) + 1)),
              err |-> NoErr]
        ELSE [endpoint |-> <<>>,
              err |-> "no advertise or internal address for the cluster"]

\* The addresses the selection is checked on.
Addresses ==
    { [Type |-> AddressReal, Host |-> "10.0.0.1", Port |-> APIPort],
      [Type |-> AddressReal, Host |-> "10.0.0.2", Port |-> APIPort],
      [Type |-> AddressAdvertise, Host |-> "10.0.0.100", Port |-> APIPort],
      [Type |-> AddressAdvertise, Host |-> "10.0.0.200", Port |-> 8443],
      [Type |-> AddressOther, Host |-> "10.0.0.9", Port |-> APIPort] }

AddressLists == UNION { [1..n -> Addresses] : n \in 0..MaxAddrs }

\* The seeds rand.Intn is checked on: enough to reach every index of a list.
Seeds == 0..(MaxAddrs - 1)

\* A caller selects the endpoint of the address list it holds.
SelectEndpoint ==
    /\ ~sel.done
    /\ LET r == GetMasterEndpoint(sel.addresses, sel.seed) IN
       sel' = [sel EXCEPT !.endpoint = r.endpoint, !.err = r.err, !.done = TRUE]
    /\ UNCHANGED <<cluster, gen, clients, nodeMarked, last, pipe, hosts, cfg>>

\* ---------------------------------- cluster phases that build an endpoint

\* constants.KubeApiServer, the name the API server is reached by in the
\* management cluster, is "kube-apiserver".

\* What a cluster phase that writes the record returns to its action.
RecordDone(c, outcome) == [c |-> c, last |-> outcome]

\* The endpoint a phase built, as its trace.
Built(endpoint) == <<[step |-> "BuildApiserverEndpoint", endpoint |-> endpoint]>>

\* kubeadm.InitCerts issues the cluster's CA into the credential, or fails.
EnsureCertsPhase(c, fails) ==
    LET op == "EnsureCerts"
        apiserver == BuildApiserverEndpoint("kube-apiserver", APIPort)
    IN  IF fails
        THEN RecordDone(c, Outcome(op, "init certs error", Built(apiserver),
                                   FALSE, <<>>, <<>>, "", 0))
        ELSE RecordDone([c EXCEPT !.Credential.CACert = <<"ca", c.Name>>],
                        Outcome(op, NoErr, Built(apiserver), FALSE, <<>>, <<>>,
                                "", 0))

EnsureCerts ==
    /\ \E fails \in BOOLEAN :
         LET d == EnsureCertsPhase(cluster, fails) IN
         /\ cluster' = d.c
         /\ last' = d.last
    /\ UNCHANGED <<gen, clients, nodeMarked, sel, pipe, hosts, cfg>>

ClusterEnsureKubeconfigPhase(c, fails) ==
    LET op == "ClusterEnsureKubeconfig"
        apiserver == BuildApiserverEndpoint("kube-apiserver", GetBindPort(c))
    IN  RecordDone(c, Outcome(op,
                              IF fails THEN "apply master kubeconfig error"
                              ELSE NoErr,
                              Built(apiserver), FALSE, <<>>, <<>>, "", 0))

ClusterEnsureKubeconfig ==
    /\ \E fails \in BOOLEAN :
         LET d == ClusterEnsureKubeconfigPhase(cluster, fails) IN
         /\ cluster' = d.c
         /\ last' = d.last
    /\ UNCHANGED <<gen, clients, nodeMarked, sel, pipe, hosts, cfg>>

\* certs.CreateApiserverKubeConfigFile: the external-admin kubeconfig of the
\* cluster against the endpoint, signed with the CA; it needs the CA material.
CreateApiserverKubeConfigFile(caCert, apiserver, clusterName, fails) ==
    IF fails \/ caCert = Nil
    THEN [cfgMaps |-> <<>>, err |-> "create kubeconfig error"]
    ELSE [cfgMaps |-> <<[server |-> apiserver, ca |-> caCert,
                         cluster |-> clusterName]>>,
          err |-> NoErr]

\* string(by) of certs.BuildKubeConfigByte(v): the serialised kubeconfig.
BuildKubeConfigByte(v) == <<"kubeconfig", v.server, v.ca, v.cluster>>

\* The loop over cfgMaps of EnsureExtKubeconfig from the i-th entry on: every
\* entry is serialised and stored under the one export key; the failAt-th
\* serialisation fails and ends the loop.
RECURSIVE StoreExtKubeconfigs(_, _, _, _)
StoreExtKubeconfigs(c, cfgMaps, i, failAt) ==
    IF i > Len(cfgMaps) THEN [c |-> c, err |-> NoErr]
    ELSE IF i = failAt THEN [c |-> c, err |-> "build kubeconfig byte error"]
    ELSE StoreExtKubeconfigs(
             [c EXCEPT !.Credential.ExtData.data[ExternalAdminKubeConfigFileName] =
                           BuildKubeConfigByte(cfgMaps[i])],
             cfgMaps, i + 1, failAt)

\* Mutant of EnsureExtKubeconfigPhase: the extension map is made anew on
\* every call.
EnsureExtKubeconfigPhase_FreshMap(c, createFails, failAt) ==
    LET op == "EnsureExtKubeconfig"
        ha == c.Spec.HA
        c1 == [c EXCEPT !.Credential.ExtData = [NilExtData EXCEPT !.made = TRUE]]
        apiserver == BuildApiserverEndpoint(ha.ThirdPartyHA.VIP, GetBindPort(c))
        r == CreateApiserverKubeConfigFile(c.Credential.CACert, apiserver,
                                           c.Name, createFails)
        w == StoreExtKubeconfigs(c1, r.cfgMaps, 1, failAt)
    IN  IF ~ha.set \/ ~ha.ThirdPartyHA.set
        THEN RecordDone(c1, Outcome(op, PanicNil, <<>>, FALSE, <<>>, <<>>, "", 0))
        ELSE IF r.err # NoErr
        THEN RecordDone(c1, Outcome(op, r.err, Built(apiserver), FALSE, <<>>,
                                    <<>>, "", 0))
        ELSE RecordDone(w.c, Outcome(op, w.err, Built(apiserver), FALSE, <<>>,
                                     <<>>, "", 0))

\* The map is made when it is nil (handler.go:202-204); the endpoint is built
\* from Features.HA.ThirdPartyHA.VIP with no nil check (handler.go:206).
EnsureExtKubeconfigPhase(c, createFails, failAt) ==
    LET op == "EnsureExtKubeconfig"
        ha == c.Spec.HA
        c1 == [c EXCEPT !.Credential.ExtData.made = TRUE]
        apiserver == BuildApiserverEndpoint(ha.ThirdPartyHA.VIP, GetBindPort(c))
        r == CreateApiserverKubeConfigFile(c.Credential.CACert, apiserver,
                                           c.Name, createFails)
        w == StoreExtKubeconfigs(c1, r.cfgMaps, 1, failAt)
    IN  IF ~ha.set \/ ~ha.ThirdPartyHA.set
        THEN RecordDone(c1, Outcome(op, PanicNil, <<>>, FALSE, <<>>, <<>>, "", 0))
        ELSE IF r.err # NoErr
        THEN RecordDone(c1, Outcome(op, r.err, Built(apiserver), FALSE, <<>>,
                                    <<>>, "", 0))
        ELSE RecordDone(w.c, Outcome(op, w.err, Built(apiserver), FALSE, <<>>,
                                     <<>>, "", 0))

EnsureExtKubeconfig ==
    /\ \E createFails \in BOOLEAN, failAt \in 0..1 :
         LET d == EnsureExtKubeconfigPhase(cluster, createFails, failAt) IN
         /\ cluster' = d.c
         /\ last' = d.last
    /\ UNCHANGED <<gen, clients, nodeMarked, sel, pipe, hosts, cfg>>

\* The record of a cluster whose derivation and certificates have succeeded,
\* as the machine phases are handed it.
ReadyCluster(spec) ==
    EnsureCertsPhase(
        RunCompleteFuncs(ClusterCompleteFuncs, 1, NewCluster(spec), 0, "ok").c,
        FALSE).c

\* ------------------------------------------------------------ specifications

NoSelection ==
    [addresses |-> <<>>, seed |-> 0, endpoint |-> <<>>, err |-> NoErr,
     done |-> FALSE]

InitWith(specs) ==
    /\ cluster \in {NewCluster(s) : s \in specs}
    /\ gen = 0
    /\ clients = [cli \in {MgmtClient, TargetClient} |-> EmptyClient]
    /\ nodeMarked = {}
    /\ last = NoOutcome
    /\ sel = NoSelection
    /\ pipe = NoPipes
    /\ hosts = NoHosts
    /\ cfg = [NeedSetHosts |-> FALSE]

\* The cluster phases that derive the record and bring up the control plane,
\* driven by the controller in any order, on the scenario of spec.md.
Init == InitWith({ScenarioSpec(v) : v \in Versions})

Next ==
    \/ EnsureClusterComplete
    \/ EditVersion
    \/ EnsureKubeMaster

Spec == Init /\ [][Next]_vars

\* The control plane reconciled pass after pass while the operator edits the
\* declared version.
InitMaster == InitWith({ScenarioSpec(v) : v \in Versions})

NextMaster ==
    \/ EditVersion
    \/ EnsureKubeMaster

SpecMaster == InitMaster /\ [][NextMaster]_vars

\* State derivation over the declared specs.
InitDerive == InitWith(DeclaredSpecs)

NextDerive == EnsureClusterComplete

SpecDerive == InitDerive /\ [][NextDerive]_vars

\* A store client in which the objects ids were each created at version v.
FullClient(ids, v) ==
    [objs |-> [id \in ObjIds |-> IF id \in ids THEN v ELSE Absent],
     creates |-> [id \in ObjIds |-> IF id \in ids THEN 1 ELSE 0]]

\* The phases that go through a store client, on one declared spec: on a new
\* cluster, and on one whose objects were reconciled before its upgrade.
InitAddons ==
    /\ cluster = NewCluster(ScenarioSpec("v1.19.0"))
    /\ gen = 0
    /\ clients \in { [cli \in {MgmtClient, TargetClient} |-> EmptyClient],
                     [cli \in {MgmtClient, TargetClient} |->
                        IF cli = MgmtClient
                        THEN FullClient(MasterObjs, "v1.18.5")
                        ELSE FullClient(AddonObjs, "v1.18.5")] }
    /\ nodeMarked = {}
    /\ last = NoOutcome
    /\ sel = NoSelection
    /\ pipe = NoPipes
    /\ hosts = NoHosts
    /\ cfg = [NeedSetHosts |-> FALSE]

NextAddons ==
    \/ EnsureKubeMaster
    \/ EnsureAddons
    \/ EnsureFlannel
    \/ EnsureMetricsServer

SpecAddons == InitAddons /\ [][NextAddons]_vars

\* The phases that look the target cluster's client up in ClusterManager.
InitLookup == InitWith({ScenarioSpec("v1.18.5")})

NextLookup ==
    \/ EnsureAddons
    \/ EnsureFlannel
    \/ EnsureMetricsServer
    \/ EnsureMarkNode
    \/ EnsureNodeReady

SpecLookup == InitLookup /\ [][NextLookup]_vars

\* Endpoint selection over the address lists.
InitEndpoint ==
    /\ cluster = NewCluster(ScenarioSpec("v1.18.5"))
    /\ gen = 0
    /\ clients = [cli \in {MgmtClient, TargetClient} |-> EmptyClient]
    /\ nodeMarked = {}
    /\ last = NoOutcome
    /\ sel \in [addresses : AddressLists, seed : Seeds, endpoint : {<<>>},
                err : {NoErr}, done : {FALSE}]
    /\ pipe = NoPipes
    /\ hosts = NoHosts
    /\ cfg = [NeedSetHosts |-> FALSE]

NextEndpoint == SelectEndpoint

SpecEndpoint == InitEndpoint /\ [][NextEndpoint]_vars

\* The declared specs the machine pipeline is checked on: the scenario with
\* each hook configured or not, no HA or a third-party HA, and alternative
\* names declared or not.
MachineSpecs ==
    { [ScenarioSpec("v1.18.5") EXCEPT
         !.Hooks = h, !.HA = ha, !.PublicAlternativeNames = names,
         !.Files = <<"kubelet.conf">>] :
      h \in HookConfigs,
      ha \in {NoHA, [set |-> TRUE, DKEHA |-> NoDKEHA,
                     ThirdPartyHA |-> [set |-> TRUE, VIP |-> "10.0.0.200",
                                       VPort |-> 8443]]},
      names \in {<<>>, <<"api.member.local">>} }

\* One pipeline invocation for the first machine of a cluster that is ready
\* for its machines.
InitMachine ==
    /\ cluster \in {ReadyCluster(s) : s \in MachineSpecs}
    /\ gen = 1
    /\ clients = [cli \in {MgmtClient, TargetClient} |-> EmptyClient]
    /\ nodeMarked = {}
    /\ last = NoOutcome
    /\ sel = NoSelection
    /\ pipe = [m \in MachineIPs |-> IF m = "10.0.0.1" THEN Started ELSE Idle]
    /\ hosts = NoHosts
    /\ cfg \in Cfgs

NextMachine ==
    \/ EnsureCopyFiles
    \/ EnsurePreInstallHook
    \/ EnsurePreflight
    \/ EnsureRegistryHosts
    \/ EnsureClean
    \/ EnsureSystem
    \/ EnsureK8sComponent
    \/ MachineEnsureKubeconfig
    \/ EnsureJoinNode
    \/ EnsureEth
    \/ EnsureCni
    \/ EnsureMarkNode
    \/ EnsureNodeReady
    \/ EnsurePostInstallHook

SpecMachine == InitMachine /\ [][NextMachine]_vars

\* The pipeline invocations of the two machines of one cluster, run by the
\* controller at the same time: each step is a phase of either machine.
InitPipelines ==
    /\ cluster \in {ReadyCluster(s) : s \in
                      {t \in MachineSpecs :
                          /\ t.HA.set
                          /\ t.PublicAlternativeNames # <<>>
                          /\ t.Hooks[HookPostInstall] # NoHook}}
    /\ gen = 1
    /\ clients = [cli \in {MgmtClient, TargetClient} |-> EmptyClient]
    /\ nodeMarked = {}
    /\ last = NoOutcome
    /\ sel = NoSelection
    /\ pipe = [m \in MachineIPs |-> Started]
    /\ hosts = NoHosts
    /\ cfg = [NeedSetHosts |-> TRUE]

SpecPipelines == InitPipelines /\ [][NextMachine]_vars

\* The control-plane phases of the machines, invoked one at a time.
InitPoll == InitWith({ScenarioSpec("v1.18.5")})

NextPoll ==
    \/ EnsureMarkNode
    \/ EnsureNodeReady

SpecPoll == InitPoll /\ [][NextPoll]_vars

\* The cluster phases from derivation to the cluster kubeconfig, over declared
\* specs with no, one or two machines and every HA configuration.
BringUpSpecs ==
    { [ScenarioSpec("v1.18.5") EXCEPT !.Machines = ms, !.HA = ha] :
      ms \in MachineLists, ha \in HAConfigs }

InitBringUp == InitWith(BringUpSpecs)

NextBringUp ==
    \/ EnsureClusterComplete
    \/ EnsureCerts
    \/ ClusterEnsureKubeconfig

SpecBringUp == InitBringUp /\ [][NextBringUp]_vars
\* The export of the external kubeconfig, with the phases it depends on,
\* over every HA configuration and over records that come with an extension
\* map that is nil, holds another export, or holds an earlier export as well.
ExtDatas ==
    { NilExtData,
      [made |-> TRUE,
       data |-> [k \in ExtKeys |->
                   IF k = ExternalAdminKubeConfigFileName THEN <<>>
                   ELSE <<"kubeconfig", "tenant">>]],
      [made |-> TRUE,
       data |-> [k \in ExtKeys |->
                   IF k = ExternalAdminKubeConfigFileName
                   THEN <<"kubeconfig", "earlier">>
                   ELSE <<"kubeconfig", "tenant">>]] }

InitExport ==
    /\ cluster \in { [NewCluster([ScenarioSpec("v1.18.5") EXCEPT !.HA = ha])
                        EXCEPT !.Credential.ExtData = x] :
                      ha \in HAConfigs, x \in ExtDatas }
    /\ gen = 0
    /\ clients = [cli \in {MgmtClient, TargetClient} |-> EmptyClient]
    /\ nodeMarked = {}
    /\ last = NoOutcome
    /\ sel = NoSelection
    /\ pipe = NoPipes
    /\ hosts = NoHosts
    /\ cfg = [NeedSetHosts |-> FALSE]

NextExport ==
    \/ EnsureClusterComplete
    \/ EnsureCerts
    \/ EnsureExtKubeconfig

SpecExport == InitExport /\ [][NextExport]_vars

\* -------------------------------------------------------------------- claims

\* State derivation has succeeded on the record at least once: the certificate
\* key is the last field the last step writes, and nothing clears it.
Derived(c) == c.Credential.CertificateKey # Nil

\* A step of the phase `op` that leaves the record alone (every phase but
\* EnsureClusterComplete); EditVersion and SelectEndpoint are no such step.
PhaseStep(op) ==
    /\ last'.op = op
    /\ cluster' = cluster
    /\ gen' = gen
    /\ sel' = sel

\* C1: once state derivation has succeeded on a record, no cluster phase,
\* EnsureClusterComplete included, changes ClusterCredential.Token again.
C1_TokenImmutable ==
    [][Derived(cluster) =>
         cluster'.Credential.Token = cluster.Credential.Token]_vars

\* C2: EnsureClusterComplete runs version, networking, DNS address, addresses,
\* credentials in that order, each only after the previous one succeeded; it
\* returns the error of the first step that fails and runs no step after it,
\* and returns success only when all five have succeeded.
C2_DeriveOrderFailFast ==
    last.op = "EnsureClusterComplete" =>
        LET t == last.trace
            n == Len(t)
            order == <<"completeK8sVersion", "completeNetworking", "completeDNS",
                       "completeAddresses", "completeCredential">>
        IN  /\ n \in 1..5
            /\ \A i \in 1..n : t[i].step = order[i]
            /\ \A i \in 1..(n - 1) : t[i].err = NoErr
            /\ last.err = t[n].err
            /\ last.err = NoErr <=> (n = 5 /\ \A i \in 1..n : t[i].err = NoErr)

\* C2 witness: a derivation whose DNS step failed after version and networking
\* had succeeded.
C2_Witness ==
    /\ last.op = "EnsureClusterComplete"
    /\ Len(last.trace) = 3
    /\ last.trace[3].step = "completeDNS"
    /\ last.err # NoErr
    /\ cluster.Status.ServiceCIDR.set
    /\ cluster.Credential.Token = Nil

\* The elements of a list of the given type, as a set.
ElemsOfType(addresses, type) ==
    {addresses[i] : i \in {j \in 1..Len(addresses) : addresses[j].Type = type}}

\* C3: for every address list with at least one Advertise address, wherever it
\* stands, GetMasterEndpoint returns the endpoint of an Advertise address of the
\* list and never that of a Real address.
C3_AdvertiseWins ==
    (sel.done /\ ElemsOfType(sel.addresses, AddressAdvertise) # {}) =>
        /\ sel.err = NoErr
        /\ \E a \in ElemsOfType(sel.addresses, AddressAdvertise) :
             sel.endpoint = Endpoint(a)
        /\ \A a \in ElemsOfType(sel.addresses, AddressReal) :
             sel.endpoint # Endpoint(a)

\* The list holds addresses of that type only, two or more, with distinct hosts.
OnlyOfType(addresses, type) ==
    /\ Len(addresses) >= 2
    /\ \A i \in 1..Len(addresses) : addresses[i].Type = type
    /\ \A i, j \in 1..Len(addresses) :
         i # j => addresses[i].Host # addresses[j].Host

\* C4: on a list of Real addresses only (likewise of Advertise addresses only),
\* every address of the list is the result of some call, and every result is
\* the endpoint of an address of the list.
C4_SelectsAmongAll ==
    \A type \in {AddressReal, AddressAdvertise} :
        (sel.done /\ OnlyOfType(sel.addresses, type)) =>
            /\ \A a \in ElemsOfType(sel.addresses, type) :
                 \E seed \in Seeds :
                    GetMasterEndpoint(sel.addresses, seed).endpoint = Endpoint(a)
            /\ \E a \in ElemsOfType(sel.addresses, type) :
                 sel.endpoint = Endpoint(a)

\* C5: GetMasterEndpoint returns the no-address error and an empty endpoint
\* exactly when the list holds neither an Advertise nor a Real address; with
\* at least one such address it returns an endpoint and no error.
C5_NoAddressError ==
    sel.done =>
        LET none == /\ ElemsOfType(sel.addresses, AddressAdvertise) = {}
                    /\ ElemsOfType(sel.addresses, AddressReal) = {}
        IN  /\ none => (sel.err # NoErr /\ sel.endpoint = <<>>)
            /\ ~none => (sel.err = NoErr /\ sel.endpoint # <<>>)

\* C5 witness: the selection failed on a list that is not empty and holds
\* neither kind of address.
C5_Witness ==
    /\ sel.done
    /\ Len(sel.addresses) = 2
    /\ sel.err # NoErr
    /\ sel.endpoint = <<>>

\* The objects the last EnsureKubeMaster reconciled are what it would build
\* now: the desired spec has not changed since.
SameDesired(calls, c) ==
    \A i \in 1..Len(calls) :
        \E j \in 1..Len(KubeMasterFuncs(c)) :
            /\ KubeMasterFuncs(c)[j].id = calls[i].id
            /\ KubeMasterFuncs(c)[j].spec = calls[i].spec

\* C6: reconciling an identity that is absent is one create; reconciling it
\* again with the desired spec unchanged is a no-op (so two EnsureKubeMaster
\* passes on an unchanged record make one create per object in total, all in
\* the first pass); reconciling it with a changed desired spec is an update
\* and no second create.
C6_ReconcileIdempotent ==
    [][PhaseStep("EnsureKubeMaster") =>
         LET calls == last'.calls
             old == clients[MgmtClient]
             new == clients'[MgmtClient]
         IN  /\ \A i \in 1..Len(calls) :
                  LET id == calls[i].id IN
                  calls[i].err = NoErr =>
                    /\ old.objs[id] = Absent =>
                         /\ calls[i].mut = "create"
                         /\ new.creates[id] = old.creates[id] + 1
                    /\ old.objs[id] = calls[i].spec =>
                         /\ calls[i].mut = "none"
                         /\ new.creates[id] = old.creates[id]
                    /\ old.objs[id] \notin {Absent, calls[i].spec} =>
                         /\ calls[i].mut = "update"
                         /\ new.creates[id] = old.creates[id]
                    /\ new.objs[id] = calls[i].spec
             /\ \A id \in ObjIds : new.creates[id] <= 1
             /\ (/\ last.op = "EnsureKubeMaster"
                 /\ last.err = NoErr
                 /\ SameDesired(last.calls, cluster)) =>
                    /\ new = old
                    /\ \A i \in 1..Len(calls) : calls[i].mut = "none"
                    /\ \A id \in MasterObjs : new.creates[id] = 1]_vars

\* C6 witness: a second EnsureKubeMaster pass that made no mutating call, every
\* object having been created once by the pass before it.
C6_Witness ==
    /\ last.op = "EnsureKubeMaster"
    /\ last.err = NoErr
    /\ Len(last.calls) = 4
    /\ \A i \in 1..4 : last.calls[i].mut = "none"
    /\ \A id \in MasterObjs :
         /\ clients[MgmtClient].creates[id] = 1
         /\ clients[MgmtClient].objs[id] = cluster.Spec.Version

\* C7: EnsureKubeMaster reconciles the API-server deployment, the API-server
\* service, the controller-manager and the scheduler in that order, each only
\* after the one before succeeded; at the first failure it returns an error,
\* reconciles nothing further and leaves the objects already reconciled as
\* they are.
C7_KubeMasterOrderFailFast ==
    [][PhaseStep("EnsureKubeMaster") =>
         LET calls == last'.calls
             n == Len(calls)
             order == <<"kube-apiserver", "kube-apiserver-svc",
                        "kube-controller-manager", "kube-scheduler">>
             old == clients[MgmtClient]
             new == clients'[MgmtClient]
         IN  /\ n \in 1..4
             /\ \A i \in 1..n : calls[i].id = order[i]
             /\ \A i \in 1..(n - 1) : calls[i].err = NoErr
             /\ (last'.err = NoErr) <=> (n = 4 /\ calls[n].err = NoErr)
             /\ \A i \in 1..n :
                  IF calls[i].err = NoErr
                  THEN new.objs[order[i]] = calls[i].spec
                  ELSE new.objs[order[i]] = old.objs[order[i]]
             /\ \A i \in (n + 1)..4 : new.objs[order[i]] = old.objs[order[i]]
             /\ clients'[TargetClient] = clients[TargetClient]]_vars

\* C7 witness: EnsureKubeMaster failed at the controller-manager; the API
\* server and its service stay reconciled and the scheduler was not touched.
C7_Witness ==
    /\ last.op = "EnsureKubeMaster"
    /\ last.err # NoErr
    /\ Len(last.calls) = 3
    /\ clients[MgmtClient].objs["kube-apiserver"] = cluster.Spec.Version
    /\ clients[MgmtClient].objs["kube-apiserver-svc"] = cluster.Spec.Version
    /\ clients[MgmtClient].objs["kube-controller-manager"] = Absent
    /\ clients[MgmtClient].objs["kube-scheduler"] = Absent

ReconcilePhases ==
    {"EnsureKubeMaster", "EnsureAddons", "EnsureFlannel", "EnsureMetricsServer"}

\* C8: when a reconcile call of EnsureKubeMaster, EnsureAddons, EnsureFlannel or
\* EnsureMetricsServer returns an error, a conflict included, the phase
\* returns a non-nil error.
C8_ReconcileErrorSurfaces ==
    (/\ last.op \in ReconcilePhases
     /\ \E i \in 1..Len(last.calls) : last.calls[i].err # NoErr)
        => last.err # NoErr

\* C8 witness: an addon phase whose second reconcile met a conflict returned
\* an error.
C8_Witness ==
    /\ last.op = "EnsureFlannel"
    /\ Len(last.calls) = 2
    /\ last.calls[2].err = "conflict"
    /\ last.err # NoErr

LookupPhases ==
    {"EnsureAddons", "EnsureFlannel", "EnsureMetricsServer", "EnsureMarkNode",
     "EnsureNodeReady"}

\* C9: when the lookup of the target cluster's client fails, EnsureAddons,
\* EnsureFlannel, EnsureMetricsServer, EnsureMarkNode and EnsureNodeReady return
\* success as a no-op: no builder is called, no store or node object is read or
\* written, and nothing is polled.
C9_LookupFailureIsNoOp ==
    [][\A op \in LookupPhases :
         (PhaseStep(op) /\ ~last'.found) =>
            /\ last'.err = NoErr
            /\ last'.builds = <<>>
            /\ last'.calls = <<>>
            /\ last'.polls = 0
            /\ clients' = clients
            /\ nodeMarked' = nodeMarked]_vars

\* C9 witness: EnsureNodeReady returned success without a poll, the lookup
\* having failed, after objects had been reconciled in the target cluster.
C9_Witness ==
    /\ last.op = "EnsureNodeReady"
    /\ ~last.found
    /\ last.err = NoErr
    /\ last.polls = 0
    /\ clients[TargetClient].objs["kube-proxy"] # Absent

AddonPhases == {"EnsureAddons", "EnsureFlannel", "EnsureMetricsServer"}

\* C10: the addon phases reconcile every object through the client
\* ClusterManager holds for the cluster's own name, and leave the store behind
\* c.Client, the management cluster's, unchanged.
C10_AddonsUseTargetClient ==
    [][\A op \in AddonPhases :
         PhaseStep(op) =>
            /\ \A i \in 1..Len(last'.calls) :
                 last'.calls[i].client = ClusterManagerGet(cluster.Name, TRUE).Client
            /\ clients'[MgmtClient] = clients[MgmtClient]]_vars

\* C10 witness: an addon phase created an object in the target cluster while
\* the management cluster holds the control plane's objects and none of the
\* addon's.
C10_Witness ==
    /\ last.op = "EnsureMetricsServer"
    /\ Len(last.calls) = 1
    /\ last.calls[1].mut = "create"
    /\ clients[TargetClient].objs["metrics-server"] # Absent
    /\ clients[MgmtClient].objs["metrics-server"] = Absent
    /\ clients[MgmtClient].objs["kube-scheduler"] # Absent

\* The step is the phase `name` of the pipeline invocation of machine m.
MachineRan(m, name) ==
    /\ AtPhase(m, name)
    /\ pipe'[m] # pipe[m]

\* C11: with the machine's handle obtained, EnsurePreInstallHook makes the
\* target of the configured pre-install hook executable and then executes that
\* hook on the machine, whether or not a post-install hook is configured; with
\* no pre-install hook configured it executes nothing.
C11_PreInstallHookRuns ==
    [][\A m \in MachineIPs :
         (MachineRan(m, "EnsurePreInstallHook") /\ last'.err # ErrSSH) =>
            LET pre == cluster.Spec.Hooks[HookPreInstall] IN
            IF pre = NoHook
            THEN hosts' = hosts
            ELSE hosts'[m].cmds =
                    hosts[m].cmds \o <<"chmod +x " \o FirstWord(pre),
                                       JoinWords(pre)>>]_vars

HookPhases == {"EnsurePreInstallHook", "EnsurePostInstallHook"}

\* C12: when the hook a hook phase executed exits with a non-zero code or its
\* execution reports an error, the phase returns an error whose text holds the
\* captured stderr and the exit code; and once a phase of a machine's pipeline
\* invocation has returned an error, no later phase of that invocation is
\* started: the invocation stays where it failed, and nothing more is executed
\* on the machine's host or done to its node object.
C12_HookFailureStops ==
    [][\A m \in MachineIPs :
         /\ \A op \in HookPhases :
              (/\ MachineRan(m, op)
               /\ last'.calls # <<>>
               /\ (last'.calls[1].exit # 0 \/ last'.calls[1].err # NoErr)) =>
                  /\ last'.err =
                        "exec \"" \o last'.calls[1].cmd \o "\" failed:exit "
                            \o ToString(last'.calls[1].exit)
                            \o ":stderr " \o last'.calls[1].stderr
                            \o ":error " \o last'.calls[1].err
                  /\ pipe'[m].err = last'.err
                  /\ pipe'[m].pc = pipe[m].pc
         /\ pipe[m].err # NoErr =>
              /\ pipe'[m] = pipe[m]
              /\ hosts'[m] = hosts[m]
              /\ (m \in nodeMarked') <=> (m \in nodeMarked)]_vars

\* C12 witness: the hook run by the pre-install phase of the first machine
\* exited with code 3 and "boom" on stderr; the second machine's pipeline has
\* since run to its end, and the first machine's host has seen nothing after
\* the hook.
C12_Witness ==
    /\ pipe["10.0.0.1"].pc = 2
    /\ pipe["10.0.0.1"].err =
          "exec \"/opt/post.sh\" failed:exit 3:stderr boom:error nil"
    /\ pipe["10.0.0.2"].pc = Len(MachinePipeline) + 1
    /\ hosts["10.0.0.1"].cmds =
          <<"copy kubelet.conf", "chmod +x /opt/post.sh", "/opt/post.sh">>

\* The last phase was an EnsureNodeReady that found the target cluster's client.
Polled == last.op = "EnsureNodeReady" /\ last.found

\* What poll i (from 0) of the last EnsureNodeReady read, or would have read.
LastRead(i) ==
    NodeRead(i, last.trace[1].readyAt, last.trace[1].readsFail,
             last.trace[1].cancelAt)

\* C13: with the client available, EnsureNodeReady returns success at the first
\* poll that reads the node Ready and from no other poll; a failed read or a
\* node that is not ready makes it poll again and is never returned as an
\* error: the only error is the timeout, after the last poll of the window.
C13_SuccessAtFirstReadyPoll ==
    Polled =>
        /\ last.polls \in 1..NumPolls
        /\ last.err = NoErr =>
              /\ LastRead(last.polls - 1) = "ready"
              /\ \A i \in 0..(last.polls - 2) : LastRead(i) # "ready"
        /\ (\E i \in 0..(NumPolls - 1) : LastRead(i) = "ready") => last.err = NoErr
        /\ last.err # NoErr =>
              /\ last.err = ErrWaitTimeout
              /\ last.polls = NumPolls

\* C13 witness: the call returned success at its third poll, after two reads
\* of the node that failed.
C13_Witness ==
    /\ Polled
    /\ last.err = NoErr
    /\ last.polls = 3
    /\ LastRead(0) = "getErr"
    /\ LastRead(1) = "getErr"
    /\ LastRead(2) = "ready"

\* C14: EnsureNodeReady makes at most the polls of one window (a poll at once
\* and one per 5 seconds of the 5 minutes) and returns; when none of them reads
\* the node Ready it returns the timeout error, not success.
C14_TimeoutNotBlock ==
    Polled =>
        /\ last.polls <= PollTimeoutSec \div PollIntervalSec + 1
        /\ (\A i \in 0..(NumPolls - 1) : LastRead(i) # "ready") =>
              /\ last.err = ErrWaitTimeout
              /\ last.polls = NumPolls

\* C14 witness: with a live ctx and a node that is never Ready the call
\* returned the timeout error after the last poll of the window.
C14_Witness ==
    /\ Polled
    /\ last.trace[1].cancelAt = NumPolls
    /\ last.trace[1].readyAt = NumPolls
    /\ last.err = ErrWaitTimeout
    /\ last.polls = NumPolls

\* C15: when the caller's ctx is cancelled while EnsureNodeReady polls, the
\* poll that meets the cancellation is the last one: the call returns an error
\* without waiting out a further interval.
C15_CancelStopsPolling ==
    (Polled /\ last.trace[1].cancelAt < NumPolls
            /\ last.trace[1].readyAt > last.trace[1].cancelAt) =>
        /\ last.polls <= last.trace[1].cancelAt + 1
        /\ last.err # NoErr

\* ---------------------------------------------------------------------- C16

\* The addresses of the record, as a set.
AddressSet(c) == {c.Status.Addresses[i] : i \in 1..Len(c.Status.Addresses)}

Address(type, host, port) == [Type |-> type, Host |-> host, Port |-> port]

\* C16: once a derivation has run the addresses step on a record that started
\* without addresses, the address list holds a Real address (IP, 6443) for
\* every declared machine, the Advertise address (VIP, 6443) exactly when the
\* self-managed HA block is configured, the Advertise address (VIP, VPort)
\* exactly when the third-party HA block is configured, no Advertise address
\* when HA is not configured, and nothing else.
C16_AddressesStep ==
    (last.op = "EnsureClusterComplete" /\ Ran(last.trace, "completeAddresses")) =>
        LET spec == cluster.Spec
            ha == spec.HA
            addrs == AddressSet(cluster)
            real == {Address(AddressReal, spec.Machines[i], 6443) :
                       i \in 1..Len(spec.Machines)}
            dke == Address(AddressAdvertise, "10.0.0.100", 6443)
            third == Address(AddressAdvertise, "10.0.0.200", 8443)
        IN  /\ real \subseteq addrs
            /\ dke \in addrs <=> (ha.set /\ ha.DKEHA.set)
            /\ third \in addrs <=> (ha.set /\ ha.ThirdPartyHA.set)
            /\ ~ha.set => \A a \in addrs : a.Type # AddressAdvertise
            /\ addrs \subseteq real \cup {dke, third}

\* A derivation ran the addresses step for two machines with both HA blocks
\* configured.
C16_Witness ==
    /\ last.op = "EnsureClusterComplete"
    /\ Ran(last.trace, "completeAddresses")
    /\ Len(cluster.Spec.Machines) = 2
    /\ cluster.Spec.HA.set
    /\ cluster.Spec.HA.DKEHA.set
    /\ cluster.Spec.HA.ThirdPartyHA.set
    /\ Len(cluster.Status.Addresses) = 4

\* ---------------------------------------------------------------------- C17

\* The cluster phases that build an API endpoint.
EndpointPhases == {"EnsureCerts", "ClusterEnsureKubeconfig"}

\* C17: when a phase that builds an API endpoint has run on a record whose
\* derivation has succeeded, the address list of the record (which the phase
\* leaves as it found it) is not empty.
C17_AddressBeforeEndpoint ==
    (last.op \in EndpointPhases /\ Derived(cluster)) =>
        Len(cluster.Status.Addresses) > 0

\* ---------------------------------------------------------------------- C18

\* C18: the node kubeconfig that the machine EnsureKubeconfig has installed on
\* a host names an endpoint of the cluster's address list and carries the
\* cluster's CA certificate and the bootstrap token of the credential.
C18_NodeKubeconfig ==
    \A m \in MachineIPs :
        hosts[m].kubeconfig.set =>
            LET k == hosts[m].kubeconfig IN
            /\ \E a \in AddressSet(cluster) :
                  k.MasterEndpoint = BuildApiserverEndpoint(a.Host, a.Port)
            /\ k.CACert = cluster.Credential.CACert
            /\ k.Token = cluster.Credential.BootstrapToken

\* ---------------------------------------------------------------------- C19

\* The machine phases that read or write the machine's node object.
NodePhases == {"EnsureMarkNode", "EnsureNodeReady"}

\* C19: while the pipelines of the two machines run interleaved, a step of the
\* pipeline of machine m issues every remote command on the host m, marks and
\* polls no node object but the one named m, and leaves the host, the node
\* object and the pipeline of the other machine as they were.
C19_OwnHostOwnNode ==
    [][\A m \in MachineIPs :
          pipe'[m] # pipe[m] =>
              /\ \A h \in MachineIPs \ {m} :
                    /\ hosts'[h] = hosts[h]
                    /\ pipe'[h] = pipe[h]
                    /\ (h \in nodeMarked') <=> (h \in nodeMarked)
              /\ last'.node \in {"", m}
              /\ last'.op \in NodePhases =>
                    \A i \in 1..Len(last'.calls) : last'.calls[i].id = m
              /\ last'.op \notin NodePhases =>
                    /\ \A i \in 1..Len(last'.trace) : last'.trace[i].host = m
                    /\ \A i \in 1..Len(last'.calls) : last'.calls[i].host = m
                    /\ nodeMarked' = nodeMarked]_vars

\* Both pipelines have issued remote commands, each on its own host, and both
\* nodes are marked, the second machine's pipeline being ahead of the first's.
C19_Witness ==
    /\ hosts["10.0.0.1"].cmds # <<>>
    /\ hosts["10.0.0.2"].cmds # <<>>
    /\ hosts["10.0.0.1"].kubeconfig.set
    /\ hosts["10.0.0.2"].kubeconfig.set
    /\ nodeMarked = MachineIPs
    /\ pipe["10.0.0.2"].pc > pipe["10.0.0.1"].pc
    /\ last.op = "EnsureNodeReady"
    /\ last.node = "10.0.0.2"
    /\ last.polls > 0

\* ---------------------------------------------------------------------- C20

\* What the step f of the last derivation returned.
StepErr(f) ==
    last.trace[CHOOSE i \in 1..Len(last.trace) : last.trace[i].step = f].err

\* C20: when the DNS step of a derivation has succeeded, the DNS address in
\* the status is an address of the service CIDR in the status, declared or
\* derived, other than its first and its last; when that CIDR has no address
\* at the DNS index, the DNS step has failed and the status holds no DNS
\* address.
C20_DNSInsideServiceCIDR ==
    (last.op = "EnsureClusterComplete" /\ Ran(last.trace, "completeDNS")) =>
        LET svc == cluster.Status.ServiceCIDR
            q == cluster.Status.DNSIP
            dns == q[1] * (2 ^ 24) + q[2] * (2 ^ 16) + q[3] * (2 ^ 8) + q[4]
        IN  /\ svc.set
            /\ svc = IF cluster.Spec.ServiceCIDR.set
                     THEN cluster.Spec.ServiceCIDR
                     ELSE GetServiceCIDRAndNodeCIDRMaskSize(
                              cluster.Spec.ClusterCIDR,
                              cluster.Spec.MaxClusterServiceNum,
                              cluster.Spec.MaxNodePodNum).cidr
            /\ StepErr("completeDNS") = NoErr =>
                  /\ Len(q) = 4
                  /\ \A i \in 1..4 : q[i] \in 0..255
                  /\ svc.base < dns
                  /\ dns < svc.base + RangeSize(svc) - 1
            /\ RangeSize(svc) <= DNSIPIndex =>
                  /\ StepErr("completeDNS") # NoErr
                  /\ last.err = StepErr("completeDNS")
                  /\ q = <<>>

\* A derivation wrote the DNS address 10.0.240.10 of the derived service CIDR
\* 10.0.240.0/20.
C20_Witness ==
    /\ last.op = "EnsureClusterComplete"
    /\ Ran(last.trace, "completeDNS")
    /\ StepErr("completeDNS") = NoErr
    /\ ~cluster.Spec.ServiceCIDR.set
    /\ cluster.Status.ServiceCIDR = CIDR(Net10 + 61440, 20)
    /\ cluster.Status.DNSIP = <<10, 0, 240, 10>>

\* ---------------------------------------------------------------------- C21

\* C21: a call of EnsureExtKubeconfig leaves every key of the extension map
\* but the external-admin export key, and every other field of the record, as
\* it found them. When it succeeds, the export key holds the kubeconfig built
\* against the third-party VIP at the bind port with the cluster's CA,
\* whatever the key held before; when it returns an error, the export key
\* holds what it held before.
C21_ExtKubeconfigFrame ==
    [][last'.op = "EnsureExtKubeconfig" =>
          LET key == ExternalAdminKubeConfigFileName
              old == cluster.Credential.ExtData.data
              new == cluster'.Credential.ExtData.data
              third == cluster.Spec.HA.ThirdPartyHA
          IN  /\ \A k \in ExtKeys \ {key} : new[k] = old[k]
              /\ cluster' = [cluster EXCEPT !.Credential.ExtData =
                                                cluster'.Credential.ExtData]
              /\ last'.err = NoErr =>
                    /\ cluster.Spec.HA.set /\ third.set
                    /\ new[key] = <<"kubeconfig",
                                    <<"https://", third.VIP, ":", third.VPort>>,
                                    cluster.Credential.CACert, cluster.Name>>
              /\ last'.err # NoErr => new[key] = old[key]]_vars

\* A successful export: the export key holds the kubeconfig against the
\* third-party VIP and the other key holds what the record came with.
C21_Witness ==
    /\ last.op = "EnsureExtKubeconfig"
    /\ last.err = NoErr
    /\ cluster.Credential.ExtData.data["tenant.kubeconfig"] =
           <<"kubeconfig", "tenant">>
    /\ cluster.Credential.ExtData.data[ExternalAdminKubeConfigFileName] =
           <<"kubeconfig", <<"https://", "10.0.0.200", ":", 8443>>,
             <<"ca", "member">>, "member">>

\* ---------------------------------------------------------------------- C22

\* The machine phase `op` has nothing to do on the host: its hook is not
\* configured, host entries are not needed, or the CNI type is not "dke-cni".
NothingToDo(op) ==
    \/ op = "EnsurePreInstallHook" /\ cluster.Spec.Hooks[HookPreInstall] = NoHook
    \/ op = "EnsurePostInstallHook" /\ cluster.Spec.Hooks[HookPostInstall] = NoHook
    \/ op = "EnsureRegistryHosts" /\ ~cfg.NeedSetHosts
    \/ op \in {"EnsureEth", "EnsureCni"}
         /\ cluster.Spec.Hooks[HookCniInstall] # <<"dke-cni">>

\* C22: for a step of a remote-execution phase of machine m: every remote
\* operation it issued went through a handle on m; when it returned the error
\* of the handle it issued no remote operation; when it had nothing to do it
\* returned success and issued none (so it asked for no handle, which may
\* always fail); and when it had work to do and issued nothing it returned an
\* error.
C22_HandleBeforeRemoteWork ==
    [][\A m \in MachineIPs :
          (pipe'[m] # pipe[m] /\ last'.op \notin NodePhases) =>
              LET issued == last'.trace # <<>> \/ hosts' # hosts IN
              /\ \A i \in 1..Len(last'.trace) : last'.trace[i].host = m
              /\ last'.err = ErrSSH => ~issued
              /\ NothingToDo(MachinePipeline[pipe[m].pc]) =>
                    last'.err = NoErr /\ ~issued
              /\ (~NothingToDo(MachinePipeline[pipe[m].pc]) /\ ~issued) =>
                    last'.err # NoErr]_vars

\* ---------------------------------------------------------------------- C23

\* The two host entries of the registry, in the order they are set.
RegistryEntries ==
    <<"hosts set registry.local 10.0.0.250",
      "hosts set tenant.registry.local 10.0.0.250">>

\* C23: a step of EnsureRegistryHosts of machine m sets nothing and succeeds
\* when the configuration does not need host entries. When it does, a success
\* has set the base registry domain and then the tenant's subdomain to the
\* registry address on m, and nothing else; an error is the handle's with
\* nothing set, or that of the entry set last, the first or the second.
C23_RegistryHosts ==
    [][\A m \in MachineIPs :
          (pipe'[m] # pipe[m] /\ last'.op = "EnsureRegistryHosts") =>
              LET set == [i \in 1..Len(last'.trace) |-> last'.trace[i].cmd] IN
              /\ hosts' = [hosts EXCEPT ![m].cmds = @ \o set]
              /\ \A i \in 1..Len(last'.trace) : last'.trace[i].host = m
              /\ ~cfg.NeedSetHosts => (set = <<>> /\ last'.err = NoErr)
              /\ (cfg.NeedSetHosts /\ last'.err = NoErr) => set = RegistryEntries
              /\ (cfg.NeedSetHosts /\ last'.err # NoErr) =>
                    \/ last'.err = ErrSSH /\ set = <<>>
                    \/ /\ last'.err = "hosts set error"
                       /\ set \in {SubSeq(RegistryEntries, 1, 1), RegistryEntries}]_vars

\* The two entries have been set on the first machine, after the files were
\* copied to it.
C23_Witness ==
    /\ cfg.NeedSetHosts
    /\ last.op = "EnsureRegistryHosts"
    /\ last.err = NoErr
    /\ Len(hosts["10.0.0.1"].cmds) >= 2
    /\ SubSeq(hosts["10.0.0.1"].cmds, Len(hosts["10.0.0.1"].cmds) - 1,
              Len(hosts["10.0.0.1"].cmds)) = RegistryEntries

\* ---------------------------------------------------------------------- C24

\* C24: the machine EnsureKubeconfig and EnsureJoinNode, called for a derived
\* cluster, return success or an error value: neither ends in a panic.
C24_NoPanic ==
    (last.op \in {"EnsureKubeconfig", "EnsureJoinNode"} /\ Derived(cluster)) =>
        last.err \notin {PanicNil, PanicIndex}

====
